---- MODULE Spec2Model ----
(***************************************************************************)
(* Crawl pipeline of the bid crawler: CrawlController (the run gate),      *)
(* CrawlRunner.run (fetch -> filter -> retrieve -> extract -> persist ->   *)
(* notify), DataManager (JSON-file and database backends) and the          *)
(* EmailNotificationService status transition.                             *)
(*                                                                         *)
(* Strings that the code trims are sequences of one-character strings, so  *)
(* that str.strip() is computed and not assumed.                           *)
(***************************************************************************)
EXTENDS Integers, Sequences, FiniteSets, TLC

\* ---------------------------------------------------------------- bounds
\* Longest article list fetch_all_articles returns in the model.
MaxArticles == 2
\* Most project blocks one article body holds in the model.
MaxBids == 2

\* ------------------------------------------------------------- universes
\* The threads that call CrawlController.start(): the Flask handler of
\* POST /api/crawl/start and the scheduler loop (_trigger_crawl).
Callers == {"http", "sched"}
NoCaller == "nobody"

\* Raw article URLs as the fetcher lists them (characters; " " is blank).
RawUrls == { <<>>, <<"a">>, <<"a", " ">>, <<"b">> }

\* Tender identities (projectName, purchaser) an article body can hold.
Projects == {"p1", "p2"}

\* Exception texts (str(exc)).
Errors == {"boom"}
None == "None"

\* ------------------------------------------------------------- str.strip
RECURSIVE LStrip(_)
LStrip(s) == IF s = <<>> THEN s
             ELSE IF Head(s) = " " THEN LStrip(Tail(s)) ELSE s

RECURSIVE RStrip(_)
RStrip(s) == IF s = <<>> THEN s
             ELSE IF s[Len(s)] = " " THEN RStrip(SubSeq(s, 1, Len(s) - 1)) ELSE s

Strip(s) == RStrip(LStrip(s))

\* ------------------------------------------------------------- sequences
RECURSIVE SeqsUpTo(_, _)
SeqsUpTo(S, n) == IF n = 0 THEN {<<>>}
                  ELSE SeqsUpTo(S, n - 1) \cup [1..n -> S]

Range(s) == {s[i] : i \in 1..Len(s)}

RECURSIVE CountIn(_, _)
CountIn(s, x) == IF s = <<>> THEN 0
                 ELSE (IF Head(s) = x THEN 1 ELSE 0) + CountIn(Tail(s), x)

\* ---------------------------------------------------- extraction (abstract)
\* An article body is a sequence of tokens: a project token stands for one
\* well-formed project block, "x" for text that holds no project block.
Tokens == Projects \cup {"x"}
Texts == SeqsUpTo(Tokens, MaxBids)

\* _generate_id: 16 hex digits of md5(projectName-purchaser); never empty and
\* without blanks.  Distinct keys of the model get distinct digests.
GenerateId(p) == IF p = "p1" THEN "id1" ELSE "id2"
BidIds == {GenerateId(p) : p \in Projects}

Bid(id, st) == [id |-> id, status |-> st]

\* BidInfoExtractor.extract_from_text / DefaultParser.extract: one record
\* per project block, in text order, each created with status "new".
RECURSIVE ExtractFromText(_)
ExtractFromText(text) ==
    IF text = <<>> THEN <<>>
    ELSE IF Head(text) \in Projects
         THEN <<Bid(GenerateId(Head(text)), "new")>> \o ExtractFromText(Tail(text))
         ELSE ExtractFromText(Tail(text))

\* ------------------------------------------------------------ DataManager
\* The storage is taken to work: a write that FileStorage.save_json gives
\* up on (it logs and returns False) and a database error caught inside a
\* DataManager method other than the commit conflict below are left out.
\* Exceptions that leave a call are RunRaise.
\* record.setdefault("status", "new")
WithDefaults(bid) == IF bid.status = None THEN [bid EXCEPT !.status = "new"] ELSE bid

StoredIds(stored) == {stored[i].id : i \in 1..Len(stored)} \ {""}

\* The loop of save_bids (file backend): skip a bid without id or whose id
\* is in existing_ids, which grows with every bid appended.
RECURSIVE SaveBidsFileLoop(_, _, _, _)
SaveBidsFileLoop(existing_bids, existing_ids, new_bids, bids) ==
    IF bids = <<>> THEN [stored |-> existing_bids, new |-> new_bids]
    ELSE LET bid == Head(bids) IN
         IF bid.id = "" \/ bid.id \in existing_ids
         THEN SaveBidsFileLoop(existing_bids, existing_ids, new_bids, Tail(bids))
         ELSE SaveBidsFileLoop(Append(existing_bids, WithDefaults(bid)),
                               existing_ids \cup {bid.id},
                               Append(new_bids, WithDefaults(bid)), Tail(bids))

SaveBidsFile(stored, bids) == SaveBidsFileLoop(stored, StoredIds(stored), <<>>, bids)

\* The loop of _save_bids_db: session.get sees committed rows only (the
\* session is created with autoflush=False), so a pending record does not
\* stop a later bid of the batch with the same id from being added.
RECURSIVE SaveBidsDbLoop(_, _, _)
SaveBidsDbLoop(stored, new_records, bids) ==
    IF bids = <<>> THEN new_records
    ELSE LET bid == Head(bids) IN
         IF bid.id = "" \/ (\E i \in 1..Len(stored) : stored[i].id = bid.id)
         THEN SaveBidsDbLoop(stored, new_records, Tail(bids))
         ELSE SaveBidsDbLoop(stored, Append(new_records, WithDefaults(bid)), Tail(bids))

\* session.commit() of records that share a primary key raises; the except
\* branch rolls back and _save_bids_db returns [].
CommitConflict(new_records) ==
    \E i, j \in 1..Len(new_records) : i < j /\ new_records[i].id = new_records[j].id

SaveBidsDb(stored, bids) ==
    LET new_records == SaveBidsDbLoop(stored, <<>>, bids) IN
    IF CommitConflict(new_records)
    THEN [stored |-> stored, new |-> <<>>]
    ELSE [stored |-> stored \o new_records, new |-> new_records]

\* A save that writes every bid with an id, replacing a stored record of the same id.
RECURSIVE SaveBidsUpsertLoop(_, _)
SaveBidsUpsertLoop(stored, bids) ==
    IF bids = <<>> THEN stored
    ELSE LET bid == Head(bids)
             i == IF \E k \in 1..Len(stored) : stored[k].id = bid.id
                  THEN CHOOSE k \in 1..Len(stored) : stored[k].id = bid.id ELSE 0
         IN IF bid.id = "" THEN SaveBidsUpsertLoop(stored, Tail(bids))
            ELSE IF i = 0 THEN SaveBidsUpsertLoop(Append(stored, WithDefaults(bid)), Tail(bids))
            ELSE SaveBidsUpsertLoop([stored EXCEPT ![i] = WithDefaults(bid)], Tail(bids))

SaveBidsUpsert(db, stored, bids) ==
    [stored |-> SaveBidsUpsertLoop(stored, bids), new |-> SaveBidsFile(stored, bids).new]

SaveBids(db, stored, bids) == IF db THEN SaveBidsDb(stored, bids) ELSE SaveBidsFile(stored, bids)

\* update_bid_status: the first stored bid with that id gets the status
\* (file: loop with break; database: lookup by primary key).
FirstIndex(stored, id) ==
    IF \E i \in 1..Len(stored) : stored[i].id = id
    THEN CHOOSE i \in 1..Len(stored) :
            stored[i].id = id /\ \A j \in 1..(i - 1) : stored[j].id # id
    ELSE 0

UpdateBidStatus(stored, id, new_status) ==
    LET i == FirstIndex(stored, id) IN
    IF i = 0 THEN [stored |-> stored, updated |-> FALSE]
    ELSE [stored |-> [stored EXCEPT ![i].status = new_status], updated |-> TRUE]

\* A lookup that never finds the row.
IsArticleCrawledNever(rows, url) == FALSE

\* is_article_crawled: false for an empty url, else exact match on a row.
IsArticleCrawled(rows, url) == url # <<>> /\ \E i \in 1..Len(rows) : rows[i] = url

\* save_article: the url is stripped; no row for an empty url or a stored one.
SaveArticle(rows, raw_url) ==
    LET url == Strip(raw_url) IN
    IF url = <<>> THEN [rows |-> rows, saved |-> FALSE]
    ELSE IF \E i \in 1..Len(rows) : rows[i] = url THEN [rows |-> rows, saved |-> FALSE]
    ELSE [rows |-> Append(rows, url), saved |-> TRUE]

\* ------------------------------------------------------- CrawlRunner.run
\* The key taken without stripping.
DedupKeyRaw(raw_url) == raw_url

\* The de-duplication key of a listed article: str(article.get("url", "")).strip()
DedupKey(raw_url) == Strip(raw_url)

\* The loop over article_list: an article is kept when its key is not empty,
\* was not met before in this list, and has no stored row.
RECURSIVE FilterNewLoop(_, _, _, _)
FilterNewLoop(article_list, seen_urls, new_articles, rows) ==
    IF article_list = <<>> THEN new_articles
    ELSE LET url == DedupKey(Head(article_list)) IN
         IF url = <<>> \/ url \in seen_urls
         THEN FilterNewLoop(Tail(article_list), seen_urls, new_articles, rows)
         ELSE FilterNewLoop(Tail(article_list), seen_urls \cup {url},
                            IF IsArticleCrawled(rows, url)
                            THEN new_articles
                            ELSE Append(new_articles, Head(article_list)),
                            rows)

FilterNew(article_list, rows) == FilterNewLoop(article_list, {}, <<>>, rows)

\* A status loop that stops after the first bid.
MarkNotifiedFirst(stored, bid_list) ==
    IF bid_list = <<>> \/ Head(bid_list).id = "" THEN stored
    ELSE UpdateBidStatus(stored, Head(bid_list).id, "notified").stored

\* The status loop of send_bid_notification after a successful send: one
\* update_bid_status(id, "notified") per bid that has an id.
RECURSIVE MarkNotified(_, _)
MarkNotified(stored, bid_list) ==
    IF bid_list = <<>> THEN stored
    ELSE IF Head(bid_list).id = "" THEN MarkNotified(stored, Tail(bid_list))
    ELSE MarkNotified(UpdateBidStatus(stored, Head(bid_list).id, "notified").stored,
                      Tail(bid_list))

\* f"爬取失败: {exc}"
FailMsg(e) == "crawl failed: " \o e

\* A handler that sets the message and forgets last_error.
ExceptStatusNoError(st, e) == [st EXCEPT !.message = FailMsg(e)]

\* except Exception as exc: self._update_status(message=..., last_error=str(exc))
ExceptStatus(st, e) == [st EXCEPT !.message = FailMsg(e), !.last_error = e]

\* A notifier that marks the bids before it knows whether the mail went out.
NotifyEffectAlways(stored, bid_list, ok) == MarkNotified(stored, bid_list)

\* send_bid_notification on the stored bids: a failed send returns False
\* before the status loop; a successful one runs it.
NotifyEffect(stored, bid_list, ok) ==
    IF ok THEN MarkNotified(stored, bid_list) ELSE stored

\* Collecting every extracted bid instead of the newly saved ones.
AccumulateAll(all_new_bids, new_bids, bids) == all_new_bids \o bids

\* new_bids = save_bids(bids); all_new_bids.extend(new_bids)
Accumulate(all_new_bids, new_bids, bids) == all_new_bids \o new_bids

\* ------------------------------------------------------------------ state
VARIABLES
    env,        \* what the environment of this behaviour offers (fixed by Init)
    useDb,      \* DataManager.use_db: database backend, else JSON files
    status,     \* CrawlController.status
    lock,       \* holder of CrawlController.lock
    pc,         \* position of each caller inside start()
    ret,        \* what each caller's last start() call returned
    run,        \* the crawl task each caller launched
    bidRows,    \* stored bids (bids.json / table bids)
    articleRows, \* stored article rows (articles.json / table articles), by url
    call,       \* the last DataManager call made directly on the store, with its result
    fetch,      \* MultiSourceCrawler.fetch_all_articles and the fetcher of its current account
    sch,        \* CrawlScheduler: its loop thread, stop event and the calls it made
    app         \* the web application: its registered scheduler and the reload requests

vars == <<env, useDb, status, lock, pc, ret, run, bidRows, articleRows, call, fetch, sch, app>>

\* No fetch_all_articles call is under way.
NoFetch == [pc |-> "none", accounts |-> <<>>, acct |-> 0, all_articles |-> <<>>,
            obtained |-> <<>>, begin |-> 0, attempt |-> 0, articles |-> <<>>,
            nreq |-> 0, tries |-> 0, succeeded |-> {}, raised |-> {},
            last |-> [resp |-> "none", begin |-> 0, n |-> 0, items |-> <<>>,
                      cooldown |-> 0, delay |-> 0]]

\* No scheduler was built.
NoSch == [pc |-> "none", enabled |-> FALSE, stop_event |-> FALSE, thread |-> "none",
          stopping |-> FALSE, stopped |-> FALSE, wakes |-> 0, calls |-> 0,
          late |-> FALSE, last_started |-> "none", starts |-> 0, live |-> 0]

\* No web application was created.
NoApp == [registered |-> 0, schedulers |-> <<>>, requests |-> <<>>,
          file |-> [version |-> 0, enabled |-> FALSE]]

NoCall == [op |-> "none", bids |-> <<>>, new |-> <<>>, before |-> <<>>,
           url |-> <<>>, saved |-> FALSE, found |-> FALSE]

NoTask == [pc |-> "none", article_list |-> <<>>, new_articles |-> <<>>,
           seen_rows |-> {}, idx |-> 0, articles_data |-> <<>>,
           all_new_bids |-> <<>>, sent |-> 0, handed |-> <<>>,
           send_ok |-> "none", exc |-> None, bids_before |-> 0]

InitialStatus == [is_running |-> FALSE, progress |-> 0, total |-> 0,
                  message |-> "waiting", last_error |-> None]

ArticleLists == SeqsUpTo(RawUrls, env.max_articles)
Bodies == SeqsUpTo(Tokens, env.max_bids)

InitCommon ==
    /\ useDb \in BOOLEAN
    /\ status = InitialStatus
    /\ lock = NoCaller
    /\ pc = [c \in Callers |-> "idle"]
    /\ ret = [c \in Callers |-> "none"]
    /\ run = [c \in Callers |-> NoTask]
    /\ bidRows = <<>>
    /\ articleRows = <<>>
    /\ call = NoCall
    /\ fetch = NoFetch
    /\ sch = NoSch
    /\ app = NoApp

\* ------------------------------------------------- CrawlController.start
\* A lock that never blocks.
LockIgnored == TRUE

\* "with self.lock": the lock can be taken when nobody holds it.
LockFree == lock = NoCaller

\* A gate that reads nothing.
GateNeverClosed(st) == FALSE

\* self.status.get("is_running")
GateClosed(st) == st.is_running

\* start(), entering the with-block.
StartAcquire(c) ==
    /\ c \in env.callers
    /\ pc[c] = "idle"
    /\ LockFree
    /\ lock' = c
    /\ pc' = [pc EXCEPT ![c] = "check"]
    /\ ret' = [ret EXCEPT ![c] = "none"]
    /\ UNCHANGED <<env, app, fetch, sch, call, useDb, status, run, bidRows, articleRows>>

\* if self.status.get("is_running"): return False   (leaves the with-block)
StartCheck(c) ==
    /\ pc[c] = "check"
    /\ IF GateClosed(status)
       THEN /\ pc' = [pc EXCEPT ![c] = "idle"]
            /\ ret' = [ret EXCEPT ![c] = "false"]
            /\ lock' = NoCaller
       ELSE /\ pc' = [pc EXCEPT ![c] = "update"]
            /\ UNCHANGED <<ret, lock>>
    /\ UNCHANGED <<env, app, fetch, sch, call, useDb, status, run, bidRows, articleRows>>

\* self.status.update({...}) and the end of the with-block.
StartUpdate(c) ==
    /\ pc[c] = "update"
    /\ status' = [is_running |-> TRUE, progress |-> 0, total |-> 0,
                  message |-> "init", last_error |-> None]
    /\ lock' = NoCaller
    /\ pc' = [pc EXCEPT ![c] = "launch"]
    /\ UNCHANGED <<env, app, fetch, sch, call, useDb, ret, run, bidRows, articleRows>>

\* self.executor(task); return True   (_default_executor starts a thread)
StartLaunch(c) ==
    /\ pc[c] = "launch"
    /\ run[c].pc = "none"
    /\ run' = [run EXCEPT ![c] = [NoTask EXCEPT !.pc = "begin"]]
    /\ pc' = [pc EXCEPT ![c] = "idle"]
    /\ ret' = [ret EXCEPT ![c] = "true"]
    /\ UNCHANGED <<env, app, fetch, sch, call, useDb, status, lock, bidRows, articleRows>>

\* self.executor(task) raises (Thread.start: "can't start new thread"): the
\* exception leaves start(); in the scheduler thread nothing catches it.
StartLaunchFails(c) ==
    /\ pc[c] = "launch"
    /\ pc' = [pc EXCEPT ![c] = IF c = "sched" THEN "dead" ELSE "idle"]
    /\ ret' = [ret EXCEPT ![c] = "raised"]
    /\ UNCHANGED <<env, app, fetch, sch, call, useDb, status, lock, run, bidRows, articleRows>>

\* ------------------------------------------------------- the crawl task
\* update_status(message="正在获取文章列表...", progress=0, total=0, last_error=None)
RunBegin(t) ==
    /\ run[t].pc = "begin"
    /\ LockFree
    /\ status' = [status EXCEPT !.message = "fetching", !.progress = 0,
                                !.total = 0, !.last_error = None]
    /\ run' = [run EXCEPT ![t].pc = "fetch", ![t].bids_before = Len(bidRows)]
    /\ UNCHANGED <<env, app, fetch, sch, call, useDb, lock, pc, ret, bidRows, articleRows>>

\* article_list = multi_crawler.fetch_all_articles(...); an empty list ends the run.
RunFetch(t) ==
    /\ run[t].pc = "fetch"
    /\ \E article_list \in ArticleLists :
          IF article_list = <<>>
          THEN /\ LockFree
               /\ status' = [status EXCEPT !.message = "no article list", !.total = 0]
               /\ run' = [run EXCEPT ![t].pc = "finally"]
          ELSE /\ run' = [run EXCEPT ![t].pc = "filter", ![t].article_list = article_list]
               /\ UNCHANGED status
    /\ UNCHANGED <<env, app, fetch, sch, call, useDb, lock, pc, ret, bidRows, articleRows>>

\* A run that goes on to the retrieval whatever the filter left.
AfterFilterGoesOn(new_articles) == "scrapeBegin"

\* if not new_articles: return
AfterFilter(new_articles) == IF new_articles = <<>> THEN "finally" ELSE "scrapeBegin"

\* The de-duplication loop, update_status(total=..., message=...) and the
\* early return when nothing is new.
RunFilter(t) ==
    /\ run[t].pc = "filter"
    /\ LockFree
    /\ LET new_articles == FilterNew(run[t].article_list, articleRows) IN
       /\ status' = [status EXCEPT !.total = Len(new_articles), !.message = "found"]
       /\ run' = [run EXCEPT ![t].new_articles = new_articles,
                             ![t].seen_rows = Range(articleRows),
                             ![t].pc = AfterFilter(new_articles)]
    /\ UNCHANGED <<env, app, fetch, sch, call, useDb, lock, pc, ret, bidRows, articleRows>>

\* update_status(message="正在批量爬取文章内容...", progress=0)
RunScrapeBegin(t) ==
    /\ run[t].pc = "scrapeBegin"
    /\ LockFree
    /\ status' = [status EXCEPT !.message = "scraping", !.progress = 0]
    /\ run' = [run EXCEPT ![t].pc = "scrape", ![t].idx = 1]
    /\ UNCHANGED <<env, app, fetch, sch, call, useDb, lock, pc, ret, bidRows, articleRows>>

\* One turn of the loop of scrape_articles_batch: _scrape_with_retry(url)
\* gives an article with a non-empty body (then the progress callback
\* fires) or nothing (body <<>>: every attempt failed or came back empty).
RunScrapeOne(t) ==
    /\ run[t].pc = "scrape"
    /\ run[t].idx <= Len(run[t].new_articles)
    /\ \E body \in Bodies :
          IF body # <<>>
          THEN /\ LockFree
               /\ run' = [run EXCEPT
                     ![t].articles_data = Append(@, [url |-> run[t].new_articles[run[t].idx],
                                                     content_text |-> body]),
                     ![t].idx = @ + 1]
               /\ status' = [status EXCEPT !.progress = run[t].idx,
                                           !.total = Len(run[t].new_articles),
                                           !.message = "scraping item"]
          ELSE /\ run' = [run EXCEPT ![t].idx = @ + 1]
               /\ UNCHANGED status
    /\ UNCHANGED <<env, app, fetch, sch, call, useDb, lock, pc, ret, bidRows, articleRows>>

\* After the batch: no usable article ends the run, else extraction starts.
RunScrapeDone(t) ==
    /\ run[t].pc = "scrape"
    /\ run[t].idx > Len(run[t].new_articles)
    /\ LockFree
    /\ IF run[t].articles_data = <<>>
       THEN /\ status' = [status EXCEPT !.message = "no content"]
            /\ run' = [run EXCEPT ![t].pc = "finally"]
       ELSE /\ status' = [status EXCEPT !.message = "extracting"]
            /\ run' = [run EXCEPT ![t].pc = "extract", ![t].idx = 1]
    /\ UNCHANGED <<env, app, fetch, sch, call, useDb, lock, pc, ret, bidRows, articleRows>>

\* bids = extract_from_text(...); if bids: all_new_bids.extend(save_bids(bids))
RunExtractBids(t) ==
    /\ run[t].pc = "extract"
    /\ run[t].idx <= Len(run[t].articles_data)
    /\ LET bids == ExtractFromText(run[t].articles_data[run[t].idx].content_text)
           saved == SaveBids(useDb, bidRows, bids)
       IN IF bids # <<>>
          THEN /\ bidRows' = saved.stored
               /\ run' = [run EXCEPT ![t].all_new_bids = Accumulate(@, saved.new, bids),
                                     ![t].pc = "article"]
          ELSE /\ run' = [run EXCEPT ![t].pc = "article"]
               /\ UNCHANGED bidRows
    /\ UNCHANGED <<env, app, fetch, sch, call, useDb, status, lock, pc, ret, articleRows>>

\* self.data_manager.save_article(article_data)
RunSaveArticle(t) ==
    /\ run[t].pc = "article"
    /\ articleRows' = SaveArticle(articleRows, run[t].articles_data[run[t].idx].url).rows
    /\ run' = [run EXCEPT ![t].pc = "extract", ![t].idx = @ + 1]
    /\ UNCHANGED <<env, app, fetch, sch, call, useDb, status, lock, pc, ret, bidRows>>

\* if all_new_bids: update_status("正在发送邮件通知...") else: update_status("爬取完成,本次未发现...")
RunNotifyDecide(t) ==
    /\ run[t].pc = "extract"
    /\ run[t].idx > Len(run[t].articles_data)
    /\ LockFree
    /\ IF run[t].all_new_bids # <<>>
       THEN /\ status' = [status EXCEPT !.message = "sending"]
            /\ run' = [run EXCEPT ![t].pc = "send"]
       ELSE /\ status' = [status EXCEPT !.message = "done, nothing new"]
            /\ run' = [run EXCEPT ![t].pc = "finally"]
    /\ UNCHANGED <<env, app, fetch, sch, call, useDb, lock, pc, ret, bidRows, articleRows>>

\* self.notifier.send_bid_notification(all_new_bids, self.data_manager): the
\* mail is sent (then each bid is marked notified) or _send_email raised
\* (then False is returned before any update); then the closing update_status.
RunSend(t) ==
    /\ run[t].pc = "send"
    /\ LockFree
    /\ \E ok \in BOOLEAN :
          /\ bidRows' = NotifyEffect(bidRows, run[t].all_new_bids, ok)
          /\ run' = [run EXCEPT ![t].sent = @ + 1,
                                ![t].handed = run[t].all_new_bids,
                                ![t].send_ok = IF ok THEN "ok" ELSE "failed",
                                ![t].pc = "finally"]
    /\ status' = [status EXCEPT !.message = "done, new bids",
                                !.progress = Len(run[t].new_articles),
                                !.total = Len(run[t].new_articles)]
    /\ UNCHANGED <<env, app, fetch, sch, call, useDb, lock, pc, ret, articleRows>>

\* Where runner.run can raise: loading the accounts, the stored-row query,
\* starting the browser, the storage calls, building the mail.
CanRaise(task) ==
    \/ task.pc \in {"fetch", "filter", "extract", "article", "send"}
    \/ task.pc = "scrape" /\ task.idx = 1

\* except Exception as exc: self._update_status(message=f"爬取失败: {exc}", last_error=str(exc))
RunRaise(t) ==
    /\ CanRaise(run[t])
    /\ (run[t].pc = "extract" => run[t].idx <= Len(run[t].articles_data))
    /\ LockFree
    /\ \E e \in Errors :
          /\ status' = ExceptStatus(status, e)
          /\ run' = [run EXCEPT ![t].exc = e, ![t].pc = "finally"]
    /\ UNCHANGED <<env, app, fetch, sch, call, useDb, lock, pc, ret, bidRows, articleRows>>

\* finally: self._update_status(is_running=False); the task is over.
TaskFinally(t) ==
    /\ run[t].pc = "finally"
    /\ LockFree
    /\ status' = [status EXCEPT !.is_running = FALSE]
    /\ run' = [run EXCEPT ![t] = NoTask]
    /\ UNCHANGED <<env, app, fetch, sch, call, useDb, lock, pc, ret, bidRows, articleRows>>

Next ==
    \E c \in Callers :
        \/ StartAcquire(c)
        \/ StartCheck(c)
        \/ StartUpdate(c)
        \/ StartLaunch(c)
        \/ StartLaunchFails(c)
        \/ RunBegin(c)
        \/ RunFetch(c)
        \/ RunFilter(c)
        \/ RunScrapeBegin(c)
        \/ RunScrapeOne(c)
        \/ RunScrapeDone(c)
        \/ RunExtractBids(c)
        \/ RunSaveArticle(c)
        \/ RunNotifyDecide(c)
        \/ RunSend(c)
        \/ RunRaise(c)
        \/ TaskFinally(c)

\* Bounds of the environment of the controller specification.
CtlArticles == 1
CtlBids == 1

\* The controller under two concurrent callers.
Init ==
    /\ env = [callers |-> Callers, store |-> FALSE, fetcher |-> FALSE, scheduler |-> FALSE, max_articles |-> CtlArticles, max_bids |-> CtlBids]
    /\ InitCommon

Spec == Init /\ [][Next]_vars

\* One caller, richer article lists and bodies: the pipeline's data.
InitPipe ==
    /\ env = [callers |-> {"http"}, store |-> FALSE, fetcher |-> FALSE, scheduler |-> FALSE, max_articles |-> MaxArticles, max_bids |-> MaxBids]
    /\ InitCommon

SpecPipe == InitPipe /\ [][Next]_vars

\* ------------------------------------------ DataManager called directly
\* The records a caller of save_bids can pass: with or without id, with or
\* without a status.
StoreBids == { Bid(id, st) : id \in BidIds \cup {""}, st \in {None, "new", "notified"} }
StoreBatches == SeqsUpTo(StoreBids, env.max_bids)

\* new = data_manager.save_bids(bids)
StoreSaveBids ==
    /\ env.store
    /\ \E bids \in StoreBatches :
          LET r == SaveBids(useDb, bidRows, bids) IN
          /\ bidRows' = r.stored
          /\ call' = [NoCall EXCEPT !.op = "save_bids", !.bids = bids,
                                    !.new = r.new, !.before = bidRows]
    /\ UNCHANGED <<env, app, fetch, sch, useDb, status, lock, pc, ret, run, articleRows>>

\* data_manager.save_bids(bids) once more, with the record set of the last call
StoreSaveBidsAgain ==
    /\ env.store
    /\ call.op = "save_bids"
    /\ LET r == SaveBids(useDb, bidRows, call.bids) IN
       /\ bidRows' = r.stored
       /\ call' = [call EXCEPT !.op = "save_bids_again", !.new = r.new, !.before = bidRows]
    /\ UNCHANGED <<env, app, fetch, sch, useDb, status, lock, pc, ret, run, articleRows>>

\* saved = data_manager.save_article({"url": url, ...})
StoreSaveArticle ==
    /\ env.store
    /\ \E url \in RawUrls :
          LET r == SaveArticle(articleRows, url) IN
          /\ articleRows' = r.rows
          /\ call' = [NoCall EXCEPT !.op = "save_article", !.url = url,
                                    !.saved = r.saved, !.before = articleRows]
    /\ UNCHANGED <<env, app, fetch, sch, useDb, status, lock, pc, ret, run, bidRows>>

\* found = data_manager.is_article_crawled(url), url as just given to save_article
StoreIsArticleCrawled ==
    /\ env.store
    /\ call.op = "save_article"
    /\ call' = [call EXCEPT !.op = "is_article_crawled",
                            !.found = IsArticleCrawled(articleRows, call.url)]
    /\ UNCHANGED <<env, app, fetch, sch, useDb, status, lock, pc, ret, run, bidRows, articleRows>>

\* data_manager.save_article once more for the url of the last call
StoreSaveArticleAgain ==
    /\ env.store
    /\ call.op \in {"save_article", "is_article_crawled"}
    /\ LET r == SaveArticle(articleRows, call.url) IN
       /\ articleRows' = r.rows
       /\ call' = [call EXCEPT !.op = "save_article_again", !.saved = r.saved,
                               !.before = articleRows]
    /\ UNCHANGED <<env, app, fetch, sch, useDb, status, lock, pc, ret, run, bidRows>>

NextStore ==
    \/ StoreSaveBids
    \/ StoreSaveBidsAgain
    \/ StoreSaveArticle
    \/ StoreIsArticleCrawled
    \/ StoreSaveArticleAgain

\* The store alone, no controller: both backends, any order of calls.
InitStore ==
    /\ env = [callers |-> {}, store |-> TRUE, fetcher |-> FALSE, scheduler |-> FALSE,
              max_articles |-> MaxArticles, max_bids |-> MaxBids]
    /\ InitCommon

SpecStore == InitStore /\ [][NextStore]_vars

\* The steps of the task caller t launched.
TaskStep(t) ==
    \/ RunBegin(t) \/ RunFetch(t) \/ RunFilter(t) \/ RunScrapeBegin(t)
    \/ RunScrapeOne(t) \/ RunScrapeDone(t) \/ RunExtractBids(t)
    \/ RunSaveArticle(t) \/ RunNotifyDecide(t) \/ RunSend(t) \/ RunRaise(t)
    \/ TaskFinally(t)

\* A start() call that holds the lock or has left the with-block goes on.
CallStep(c) ==
    StartCheck(c) \/ StartUpdate(c) \/ StartLaunch(c) \/ StartLaunchFails(c)

\* Scheduling: a thread inside start() keeps running, so the lock is always
\* released again; a task thread that can take the lock again and again
\* gets it in the end.
Fairness ==
    \A c \in Callers : WF_vars(CallStep(c)) /\ SF_vars(TaskStep(c))

FairSpec == Init /\ [][Next]_vars /\ Fairness

\* ------------------------------------------------- SougouWeChatFetcher
\* Sizes of the fetch model: the article cap (limit), page_size,
\* retry_count, the accounts of one call and the page requests per account.
FetchLimit == 2
PageSize == 2
RetryCount == 2
MaxAccounts == 2
MaxRequests == 3

\* rate_limit_wait and retry_delay, seconds (the defaults of the constructor).
RateLimitWait == 60
RetryDelay == 5

\* keyword in title (Python's substring test)
IsSubstring(k, t) == \E i \in 1..(Len(t) - Len(k) + 1) : SubSeq(t, i, i + Len(k) - 1) = k

\* DEFAULT_KEYWORDS, as words of the model's alphabet
DefaultKeywords == << <<"k">>, <<"m">> >>

\* _normalize_keywords: nothing configured gives the defaults; else every
\* keyword is stripped and the empty ones are dropped.
RECURSIVE StripNonEmpty(_)
StripNonEmpty(keywords) ==
    IF keywords = <<>> THEN <<>>
    ELSE LET kw == Strip(Head(keywords)) IN
         IF kw # <<>> THEN <<kw>> \o StripNonEmpty(Tail(keywords))
         ELSE StripNonEmpty(Tail(keywords))

NormalizeKeywords(keywords) ==
    IF keywords = <<>> THEN DefaultKeywords ELSE StripNonEmpty(keywords)

\* A filter that lets every title through.
MatchKeywordsAll(keyword_logic, keyword_filters, title) == TRUE

\* _match_keywords
MatchKeywords(keyword_logic, keyword_filters, title) ==
    IF keyword_filters = <<>> THEN TRUE
    ELSE IF keyword_logic = "AND"
         THEN \A i \in 1..Len(keyword_filters) : IsSubstring(keyword_filters[i], title)
         ELSE \E i \in 1..Len(keyword_filters) : IsSubstring(keyword_filters[i], title)

\* _normalize_article: no article for an item without link
NormalizeArticle(item) ==
    LET url == Strip(item.link) IN
    IF url = <<>> THEN <<>> ELSE << [title |-> Strip(item.title), url |-> url] >>

\* The loop over the items of one page: keyword filter, normalisation,
\* append, and out of the loop once the cap is reached.
RECURSIVE CollectItems(_, _, _, _, _)
CollectItems(articles, items, keyword_logic, keyword_filters, limit) ==
    IF items = <<>> THEN articles
    ELSE LET item == Head(items)
             article == NormalizeArticle(item)
         IN IF ~MatchKeywords(keyword_logic, keyword_filters, item.title) \/ article = <<>>
            THEN CollectItems(articles, Tail(items), keyword_logic, keyword_filters, limit)
            ELSE IF Len(articles) + 1 >= limit
                 THEN articles \o article
                 ELSE CollectItems(articles \o article, Tail(items),
                                   keyword_logic, keyword_filters, limit)

\* Titles and items the backend lists.
Titles == { <<>>, <<"k">>, <<"k", "m">>, <<"z">> }
Items == { [title |-> t, link |-> <<"u">>] : t \in Titles }
             \cup { [title |-> <<"k", "m">>, link |-> <<" ">>] }
Pages == SeqsUpTo(Items, PageSize)

\* What _request_page can meet: a network or HTTP error, a body that is no
\* JSON, ret = 200013 (rate limit), ret = 200003 (credentials expired),
\* another ret, or ret = 0 with the page.
Failures == {"neterr", "badjson", "ratelimit", "auth", "other"}
Responses == { [kind |-> k, items |-> <<>>] : k \in Failures }
                \cup { [kind |-> "ok", items |-> p] : p \in Pages }

\* The enabled accounts _load_accounts can give: keyword settings, and
\* whether fakeid, token and cookie are all there.
AccountChoices ==
    { [filter_keyword_logic |-> l, filter_keywords |-> ks, credentials |-> TRUE] :
         l \in {"AND", "OR"},
         ks \in { <<>>, << <<" ">> >>, << <<"k">>, <<"m", " ">> >> } }
    \cup { [filter_keyword_logic |-> "OR", filter_keywords |-> <<>>, credentials |-> FALSE] }

\* The account the loop of fetch_all_articles is at, and its fetcher's settings.
Account == fetch.accounts[fetch.acct]
KeywordLogic == Account.filter_keyword_logic
KeywordFilters == NormalizeKeywords(Account.filter_keywords)

\* After an account whose fetch raised, the loop ends there.
AfterFailureAbort(f) == "done"

\* for account in accounts: the next account, or the return
AfterAccount(f) == IF f.acct < Len(f.accounts) THEN "construct" ELSE "done"
AfterFailure(f) == AfterAccount(f)

\* No retry at all, and a retry whatever the attempt.
RetryNever(kind, attempt) == FALSE
RetryAlways(kind, attempt) == TRUE

\* Every None of _request_page is retried while attempts are left.
RetryAfter(kind, attempt) == attempt < RetryCount

\* Pagination goes on while the cap is not reached.
GoOn(articles, items) == Len(articles) < FetchLimit

\* accounts = self._load_accounts(); no account: return []
FetchLoadAccounts ==
    /\ env.fetcher
    /\ fetch.pc = "none"
    /\ \E accounts \in SeqsUpTo(AccountChoices, MaxAccounts) :
          fetch' = IF accounts = <<>> THEN [NoFetch EXCEPT !.pc = "done"]
                   ELSE [NoFetch EXCEPT !.pc = "construct", !.accounts = accounts, !.acct = 1]
    /\ UNCHANGED <<env, app, useDb, status, lock, pc, ret, run, bidRows, articleRows, call, sch>>

\* _fetch_from_account: the fetcher is built and fetch_article_list starts;
\* without credentials it returns [] at once.
FetchConstruct ==
    /\ fetch.pc = "construct"
    /\ fetch' = [fetch EXCEPT !.pc = IF Account.credentials THEN "request" ELSE "return",
                              !.begin = 0, !.attempt = 1, !.articles = <<>>,
                              !.nreq = 0, !.tries = 0, !.succeeded = {},
                              !.last = NoFetch.last]
    /\ UNCHANGED <<env, app, useDb, status, lock, pc, ret, run, bidRows, articleRows, call, sch>>

\* One _request_page(begin) inside _request_with_retry inside the while loop
\* of fetch_article_list, with all that follows it up to the next request.
FetchRequest ==
    /\ fetch.pc = "request"
    /\ fetch.nreq < MaxRequests
    /\ \E resp \in Responses :
          LET sent == [fetch EXCEPT !.nreq = @ + 1, !.tries = @ + 1] IN
          IF resp.kind # "ok"
          THEN LET again == RetryAfter(resp.kind, fetch.attempt) IN
               fetch' = [sent EXCEPT
                  !.attempt = IF again THEN @ + 1 ELSE @,
                  !.pc = IF again THEN "request" ELSE "return",
                  !.last = [resp |-> resp.kind, begin |-> fetch.begin, n |-> 0, items |-> <<>>,
                            cooldown |-> IF resp.kind = "ratelimit" THEN RateLimitWait ELSE 0,
                            delay |-> IF again THEN RetryDelay ELSE 0]]
          ELSE IF resp.items = <<>>
          THEN fetch' = [sent EXCEPT
                  !.pc = "return",
                  !.succeeded = @ \cup {fetch.begin},
                  !.last = [resp |-> "ok", begin |-> fetch.begin, n |-> 0, items |-> <<>>,
                            cooldown |-> 0, delay |-> 0]]
          ELSE LET articles == CollectItems(fetch.articles, resp.items,
                                            KeywordLogic, KeywordFilters, FetchLimit)
               IN fetch' = [sent EXCEPT
                     !.articles = articles,
                     !.begin = @ + PageSize,
                     !.attempt = 1,
                     !.tries = 0,
                     !.succeeded = @ \cup {fetch.begin},
                     !.pc = IF GoOn(articles, resp.items) THEN "request" ELSE "return",
                     !.last = [resp |-> "ok", begin |-> fetch.begin, n |-> Len(resp.items), items |-> resp.items,
                               cooldown |-> 0, delay |-> 0]]
    /\ UNCHANGED <<env, app, useDb, status, lock, pc, ret, run, bidRows, articleRows, call, sch>>

\* return articles[:limit]; the articles get the account's id and go to all_articles
FetchReturn ==
    /\ fetch.pc = "return"
    /\ LET got == SubSeq(fetch.articles, 1, IF Len(fetch.articles) < FetchLimit
                                            THEN Len(fetch.articles) ELSE FetchLimit)
           tagged == [i \in 1..Len(got) |->
                        [title |-> got[i].title, url |-> got[i].url,
                         source_account_id |-> fetch.acct]]
       IN fetch' = [fetch EXCEPT !.all_articles = @ \o tagged,
                                 !.obtained = Append(@, tagged),
                                 !.acct = IF @ < Len(fetch.accounts) THEN @ + 1 ELSE @,
                                 !.pc = AfterAccount(fetch)]
    /\ UNCHANGED <<env, app, useDb, status, lock, pc, ret, run, bidRows, articleRows, call, sch>>

\* _fetch_from_account raises (the constructor, or a payload that is JSON
\* but no object): except Exception in fetch_all_articles logs it.
FetchAccountRaises ==
    /\ fetch.pc \in {"construct", "request"}
    /\ fetch' = [fetch EXCEPT !.obtained = Append(@, <<>>),
                              !.raised = @ \cup {fetch.acct},
                              !.acct = IF @ < Len(fetch.accounts) THEN @ + 1 ELSE @,
                              !.pc = AfterFailure(fetch),
                              !.last = [NoFetch.last EXCEPT !.resp = "raised"]]
    /\ UNCHANGED <<env, app, useDb, status, lock, pc, ret, run, bidRows, articleRows, call, sch>>

NextFetch ==
    \/ FetchLoadAccounts
    \/ FetchConstruct
    \/ FetchRequest
    \/ FetchReturn
    \/ FetchAccountRaises

\* fetch_all_articles alone, against any backend behaviour.
InitFetch ==
    /\ env = [callers |-> {}, store |-> FALSE, fetcher |-> TRUE, scheduler |-> FALSE,
              max_articles |-> MaxArticles, max_bids |-> MaxBids]
    /\ InitCommon
    /\ ~useDb

SpecFetch == InitFetch /\ [][NextFetch]_vars

\* ------------------------------------------------------ CrawlScheduler
\* How many times the loop's sleep ends by its timeout.
MaxWakes == 2
\* How many times start() is called on the scheduler.
MaxStarts == 2

\* CrawlScheduler.__init__: no thread, the stop event clear. thread is
\* self._thread ("none", or whether it is alive); stopping tells that a
\* stop() call is inside join. The other fields record what happened:
\* stopped, that a stop() call has returned and no thread was started
\* since; wakes, the sleeps ended by their timeout; calls, the
\* controller.start() calls of the loop; late, that one of them was made
\* while stopped; last_started, what the last one gave; starts, the start()
\* calls; live, the loop threads that are alive.
NewScheduler(enabled) == [NoSch EXCEPT !.pc = "built", !.enabled = enabled]

\* scheduler = CrawlScheduler(controller, scheduler_cfg, logger=logger)
SchConstruct ==
    /\ env.scheduler
    /\ sch.pc = "none"
    /\ \E enabled \in BOOLEAN : sch' = NewScheduler(enabled)
    /\ UNCHANGED <<env, app, useDb, status, lock, pc, ret, run, bidRows, articleRows, call, fetch>>

\* A start() that does not look at the thread it has.
SpawnsWhenEnabled(enabled, thread) == enabled

\* if not self.config.enabled: return
\* if self._thread and self._thread.is_alive(): return
SpawnsThread(enabled, thread) == enabled /\ thread # "alive"

\* start(): nothing when disabled or when the thread is alive, else a new
\* thread at the top of _run_forever.
SchStart ==
    /\ sch.pc # "none"
    /\ ~sch.stopping
    /\ sch.starts < MaxStarts
    /\ sch' = IF SpawnsThread(sch.enabled, sch.thread)
              THEN [sch EXCEPT !.thread = "alive", !.pc = "loop", !.stopped = FALSE,
                               !.starts = @ + 1, !.live = @ + 1]
              ELSE [sch EXCEPT !.starts = @ + 1]
    /\ UNCHANGED <<env, app, useDb, status, lock, pc, ret, run, bidRows, articleRows, call, fetch>>

\* stop(): if not self._thread: return; self._stop_event.set(); then join.
SchStop ==
    /\ sch.pc # "none"
    /\ ~sch.stopping
    /\ sch' = IF sch.thread = "none" THEN [sch EXCEPT !.stopped = TRUE]
              ELSE [sch EXCEPT !.stop_event = TRUE, !.stopping = TRUE]
    /\ UNCHANGED <<env, app, useDb, status, lock, pc, ret, run, bidRows, articleRows, call, fetch>>

\* self._thread.join(timeout=1) returns when the thread has ended, or after
\* one second with the thread still alive.
JoinReturns(thread) == thread \in {"ended", "alive"}

\* stop() returns.
SchStopReturns ==
    /\ sch.stopping
    /\ JoinReturns(sch.thread)
    /\ sch' = [sch EXCEPT !.stopping = FALSE, !.stopped = TRUE]
    /\ UNCHANGED <<env, app, useDb, status, lock, pc, ret, run, bidRows, articleRows, call, fetch>>

\* while not self._stop_event.is_set(): wait_seconds = ...  (the thread ends
\* when the event is set)
SchLoop ==
    /\ sch.pc = "loop"
    /\ sch' = IF sch.stop_event
              THEN [sch EXCEPT !.pc = "built", !.thread = "ended", !.live = @ - 1]
              ELSE [sch EXCEPT !.pc = "wait"]
    /\ UNCHANGED <<env, app, useDb, status, lock, pc, ret, run, bidRows, articleRows, call, fetch>>

\* if finished: break; self._trigger_crawl()
TriggerOnWake(finished) == ~finished

\* finished = self._stop_event.wait(wait_seconds): the event is set (True,
\* at once) or the time is over (False).
SchWake ==
    /\ sch.pc = "wait"
    /\ LET finished == sch.stop_event IN
       /\ ~finished => sch.wakes < MaxWakes
       /\ sch' = IF TriggerOnWake(finished)
                 THEN [sch EXCEPT !.pc = "trigger",
                                  !.wakes = IF finished THEN @ ELSE @ + 1]
                 ELSE [sch EXCEPT !.pc = "built", !.thread = "ended", !.live = @ - 1]
    /\ UNCHANGED <<env, app, useDb, status, lock, pc, ret, run, bidRows, articleRows, call, fetch>>

\* _trigger_crawl: started = self.controller.start(), entering its with-block.
SchTriggerCrawl ==
    /\ sch.pc = "trigger"
    /\ pc["sched"] = "idle"
    /\ LockFree
    /\ lock' = "sched"
    /\ pc' = [pc EXCEPT !["sched"] = "check"]
    /\ ret' = [ret EXCEPT !["sched"] = "none"]
    /\ sch' = [sch EXCEPT !.pc = "calling", !.calls = @ + 1, !.late = @ \/ sch.stopped]
    /\ UNCHANGED <<env, app, useDb, status, run, bidRows, articleRows, call, fetch>>

\* A loop that calls start() again until a run starts.
AfterTriggerRetry(started) == IF started = "true" THEN "loop" ELSE "trigger"

\* _trigger_crawl logs what start() returned and the loop goes round.
AfterTrigger(started) == "loop"

\* controller.start() returned to _trigger_crawl.
SchTriggerReturns ==
    /\ sch.pc = "calling"
    /\ pc["sched"] = "idle"
    /\ ret["sched"] \in {"true", "false"}
    /\ sch' = [sch EXCEPT !.pc = AfterTrigger(ret["sched"]), !.last_started = ret["sched"]]
    /\ UNCHANGED <<env, app, useDb, status, lock, pc, ret, run, bidRows, articleRows, call, fetch>>

\* controller.start() raised: nothing in _trigger_crawl or _run_forever
\* catches it and the thread ends.
SchTriggerRaises ==
    /\ sch.pc = "calling"
    /\ pc["sched"] = "dead"
    /\ pc' = [pc EXCEPT !["sched"] = "idle"]
    /\ sch' = [sch EXCEPT !.pc = "built", !.thread = "ended", !.live = @ - 1,
                          !.last_started = "raised"]
    /\ UNCHANGED <<env, app, useDb, status, lock, ret, run, bidRows, articleRows, call, fetch>>

NextSched ==
    \/ SchConstruct
    \/ SchStart
    \/ SchStop
    \/ SchStopReturns
    \/ SchLoop
    \/ SchWake
    \/ SchTriggerCrawl
    \/ SchTriggerReturns
    \/ SchTriggerRaises
    \/ CallStep("sched")
    \/ TaskStep("sched")

\* The scheduler driving the controller: a tick finds the run of an earlier
\* tick in flight or over.
InitSched ==
    /\ env = [callers |-> {}, store |-> FALSE, fetcher |-> FALSE, scheduler |-> TRUE,
              max_articles |-> CtlArticles, max_bids |-> CtlBids]
    /\ InitCommon
    /\ ~useDb

SpecSched == InitSched /\ [][NextSched]_vars

\* ------------------------------------------------------- config reload
\* The settings requests that arrive.
MaxReloads == 2
\* The crawls one scheduler loop triggers.
MaxTicks == 1

\* scheduler_cfg = _build_scheduler_config(...); CrawlScheduler(controller,
\* scheduler_cfg): a scheduler of the application. config is what it was
\* built from; pc is where its loop thread stands, "wait" in
\* _stop_event.wait, "woke" after a wait that timed out; ticks, the crawls
\* it triggered.
AppScheduler(config) ==
    [config |-> config, stop_event |-> FALSE, thread |-> "none", pc |-> "wait", ticks |-> 0]

\* scheduler.start() on a scheduler no thread of which is alive.
AppStarted(s) ==
    IF SpawnsThread(s.config.enabled, s.thread) THEN [s EXCEPT !.thread = "alive", !.pc = "wait"]
    ELSE s

\* create_app: the scheduler of the configuration file is built, started
\* and registered.
AppCreate ==
    /\ app.registered = 0
    /\ \E enabled \in BOOLEAN :
          LET cfg == [version |-> 0, enabled |-> enabled] IN
          app' = [app EXCEPT !.file = cfg,
                             !.schedulers = <<AppStarted(AppScheduler(cfg))>>,
                             !.registered = 1]
    /\ UNCHANGED <<env, sch, useDb, status, lock, pc, ret, run, bidRows, articleRows, call, fetch>>

\* A settings request arrives with a scheduler section of its own.
ReloadArrive ==
    /\ app.registered # 0
    /\ Len(app.requests) < MaxReloads
    /\ \E enabled \in BOOLEAN :
          app' = [app EXCEPT !.requests = Append(@,
                     [pc |-> "save", config |-> [version |-> Len(app.requests) + 1, enabled |-> enabled],
                      reloaded |-> [version |-> 0, enabled |-> FALSE], old |-> 0, new |-> 0])]
    /\ UNCHANGED <<env, sch, useDb, status, lock, pc, ret, run, bidRows, articleRows, call, fetch>>

\* dump_config(custom_path, current)
ReloadSave(r) ==
    /\ app.requests[r].pc = "save"
    /\ app' = [app EXCEPT !.file = app.requests[r].config, !.requests[r].pc = "load"]
    /\ UNCHANGED <<env, sch, useDb, status, lock, pc, ret, run, bidRows, articleRows, call, fetch>>

\* reloaded = _load_config(config_path)
ReloadLoad(r) ==
    /\ app.requests[r].pc = "load"
    /\ app' = [app EXCEPT !.requests[r].reloaded = app.file, !.requests[r].pc = "read"]
    /\ UNCHANGED <<env, sch, useDb, status, lock, pc, ret, run, bidRows, articleRows, call, fetch>>

\* old_scheduler = app.config["CRAWL_SCHEDULER"]
ReloadReadOld(r) ==
    /\ app.requests[r].pc = "read"
    /\ app' = [app EXCEPT !.requests[r].old = app.registered, !.requests[r].pc = "stop"]
    /\ UNCHANGED <<env, sch, useDb, status, lock, pc, ret, run, bidRows, articleRows, call, fetch>>

\* old_scheduler.stop(): returns at once without a thread, else sets the
\* event and joins.
ReloadStop(r) ==
    /\ app.requests[r].pc = "stop"
    /\ LET old == app.requests[r].old IN
       app' = IF app.schedulers[old].thread = "none"
              THEN [app EXCEPT !.requests[r].pc = "build"]
              ELSE [app EXCEPT !.schedulers[old].stop_event = TRUE, !.requests[r].pc = "join"]
    /\ UNCHANGED <<env, sch, useDb, status, lock, pc, ret, run, bidRows, articleRows, call, fetch>>

\* self._thread.join(timeout=1) returns: the thread ended, or a second passed.
ReloadJoin(r) ==
    /\ app.requests[r].pc = "join"
    /\ JoinReturns(app.schedulers[app.requests[r].old].thread)
    /\ app' = [app EXCEPT !.requests[r].pc = "build"]
    /\ UNCHANGED <<env, sch, useDb, status, lock, pc, ret, run, bidRows, articleRows, call, fetch>>

\* new_scheduler = CrawlScheduler(controller, new_scheduler_cfg);
\* new_scheduler.start(); app.config["CRAWL_SCHEDULER"] = new_scheduler
ReloadBuild(r) ==
    /\ app.requests[r].pc = "build"
    /\ app' = [app EXCEPT !.schedulers = Append(@, AppStarted(AppScheduler(app.requests[r].reloaded))),
                          !.requests[r].pc = "register",
                          !.requests[r].new = Len(app.schedulers) + 1]
    /\ UNCHANGED <<env, sch, useDb, status, lock, pc, ret, run, bidRows, articleRows, call, fetch>>

ReloadRegister(r) ==
    /\ app.requests[r].pc = "register"
    /\ app' = [app EXCEPT !.registered = app.requests[r].new, !.requests[r].pc = "done"]
    /\ UNCHANGED <<env, sch, useDb, status, lock, pc, ret, run, bidRows, articleRows, call, fetch>>

\* if self._stop_event.wait(timeout=wait): break
AppLoopWake(i) ==
    /\ app.schedulers[i].thread = "alive"
    /\ app.schedulers[i].pc = "wait"
    /\ app.schedulers[i].stop_event \/ app.schedulers[i].ticks < MaxTicks
    /\ app' = IF app.schedulers[i].stop_event
              THEN [app EXCEPT !.schedulers[i].thread = "ended"]
              ELSE [app EXCEPT !.schedulers[i].pc = "woke"]
    /\ UNCHANGED <<env, sch, useDb, status, lock, pc, ret, run, bidRows, articleRows, call, fetch>>

\* self._trigger_crawl(), then the top of the loop: while not
\* self._stop_event.is_set()
AppLoopTrigger(i) ==
    /\ app.schedulers[i].thread = "alive"
    /\ app.schedulers[i].pc = "woke"
    /\ app' = [app EXCEPT !.schedulers[i].ticks = @ + 1,
                          !.schedulers[i].pc = "wait",
                          !.schedulers[i].thread =
                              IF app.schedulers[i].stop_event THEN "ended" ELSE "alive"]
    /\ UNCHANGED <<env, sch, useDb, status, lock, pc, ret, run, bidRows, articleRows, call, fetch>>

NextReload ==
    \/ AppCreate
    \/ ReloadArrive
    \/ \E r \in 1..Len(app.requests) : ReloadSave(r)
    \/ \E r \in 1..Len(app.requests) : ReloadLoad(r)
    \/ \E r \in 1..Len(app.requests) : ReloadReadOld(r)
    \/ \E r \in 1..Len(app.requests) : ReloadStop(r)
    \/ \E r \in 1..Len(app.requests) : ReloadJoin(r)
    \/ \E r \in 1..Len(app.requests) : ReloadBuild(r)
    \/ \E r \in 1..Len(app.requests) : ReloadRegister(r)
    \/ \E i \in 1..Len(app.schedulers) : AppLoopWake(i)
    \/ \E i \in 1..Len(app.schedulers) : AppLoopTrigger(i)

\* The web application with its settings requests.
InitReload ==
    /\ env = [callers |-> {}, store |-> FALSE, fetcher |-> FALSE, scheduler |-> TRUE,
              max_articles |-> CtlArticles, max_bids |-> CtlBids]
    /\ InitCommon
    /\ ~useDb

SpecReload == InitReload /\ [][NextReload]_vars

\* ---------------------------------------------------------- SimpleCron
\* The minutes next_after tries (the source tries 525600, one year); the
\* expressions and instants of CronCases are those for which the search
\* ends the same way under either number.
SearchCap == 10

\* f(x), with x computed once.
Given(x, f(_)) == CHOOSE r \in {f(v) : v \in {x}} : TRUE

\* Text is modelled as a sequence of tokens: "*", ",", "/", "-", a token
\* that is a decimal number, or a token that is none of these ("x").
\* int(token): the number a token spells.
IntOf(tok) ==
    CASE tok = "0" -> 0 [] tok = "1" -> 1 [] tok = "2" -> 2 [] tok = "5" -> 5
      [] tok = "6" -> 6 [] tok = "7" -> 7 [] tok = "8" -> 8 [] tok = "23" -> 23
      [] tok = "25" -> 25 [] tok = "30" -> 30 [] tok = "31" -> 31
      [] tok = "58" -> 58 [] tok = "59" -> 59 [] tok = "70" -> 70
      [] OTHER -> -1
NumberTokens == {"0", "1", "2", "5", "6", "7", "8", "23", "25", "30", "31", "58", "59", "70"}

\* int(s) of a string: a number, a number after a minus sign, else ValueError.
ParseInt(s) ==
    IF Len(s) = 1 /\ s[1] \in NumberTokens THEN [ok |-> TRUE, v |-> IntOf(s[1])]
    ELSE IF Len(s) = 2 /\ s[1] = "-" /\ s[2] \in NumberTokens
         THEN [ok |-> TRUE, v |-> 0 - IntOf(s[2])]
         ELSE [ok |-> FALSE, v |-> 0]

\* s.find(tok) + 1: the place of the first tok in s, 0 when there is none.
RECURSIVE IndexFrom(_, _, _)
IndexFrom(s, tok, i) ==
    IF i > Len(s) THEN 0 ELSE IF s[i] = tok THEN i ELSE IndexFrom(s, tok, i + 1)
IndexOf(s, tok) == IndexFrom(s, tok, 1)

\* s.split(tok)
RECURSIVE Split(_, _)
Split(s, tok) ==
    LET i == IndexOf(s, tok) IN
    IF i = 0 THEN <<s>>
    ELSE <<SubSeq(s, 1, i - 1)>> \o Split(SubSeq(s, i + 1, Len(s)), tok)

Max(a, b) == IF a > b THEN a ELSE b
Min(a, b) == IF a < b THEN a ELSE b

\* if allow_sunday_seven and 7 in values: values.add(0); values.discard(7)
SundaySeven(values, allow_sunday_seven) ==
    IF allow_sunday_seven /\ 7 \in values THEN (values \ {7}) \cup {0} ELSE values

\* _expand_part: the values of one element of a field; ok is false where
\* the source raises ValueError.
ExpandPart(part, min_value, max_value, allow_sunday_seven) ==
    LET slash == IndexOf(part, "/")
        base == IF slash > 0 THEN SubSeq(part, 1, slash - 1) ELSE part
        step_int == IF slash > 0 THEN ParseInt(SubSeq(part, slash + 1, Len(part)))
                    ELSE [ok |-> TRUE, v |-> 1]
        step == Max(1, step_int.v)
        dash == IndexOf(base, "-")
        lo == IF base = <<"*">> THEN [ok |-> TRUE, v |-> min_value]
              ELSE IF dash > 0 THEN ParseInt(SubSeq(base, 1, dash - 1))
              ELSE ParseInt(base)
        hi == IF base = <<"*">> THEN [ok |-> TRUE, v |-> max_value]
              ELSE IF dash > 0 THEN ParseInt(SubSeq(base, dash + 1, Len(base)))
              ELSE ParseInt(base)
        start == Max(min_value, lo.v)
        end == Min(max_value, hi.v)
        values == {v \in start..end : (v - start) % step = 0}
    IN IF ~(step_int.ok /\ lo.ok /\ hi.ok) THEN [ok |-> FALSE, values |-> {}]
       ELSE [ok |-> TRUE, values |-> SundaySeven(values, allow_sunday_seven)]

\* _parse_field: any is true where the source returns None (every value
\* matches), else values is the set; ok is false where it raises.
ParseField(field, min_value, max_value, allow_sunday_seven) ==
    IF field = <<>> \/ field = <<"*">> THEN [ok |-> TRUE, any |-> TRUE, values |-> {}]
    ELSE LET parts == Split(field, ",")
             used == {i \in 1..Len(parts) : parts[i] # <<>>}
             ex(i) == ExpandPart(parts[i], min_value, max_value, allow_sunday_seven)
             values == UNION {ex(i).values : i \in used}
         IN IF \E i \in used : ~ex(i).ok THEN [ok |-> FALSE, any |-> FALSE, values |-> {}]
            ELSE [ok |-> TRUE, any |-> values = {}, values |-> values]

\* SimpleCron.__init__ on expr.split(): five fields, each parsed.
SimpleCron(parts) ==
    IF Len(parts) # 5 THEN [ok |-> FALSE]
    ELSE LET minutes == ParseField(parts[1], 0, 59, FALSE)
             hours == ParseField(parts[2], 0, 23, FALSE)
             days == ParseField(parts[3], 1, 31, FALSE)
             months == ParseField(parts[4], 1, 12, FALSE)
             weekdays == ParseField(parts[5], 0, 6, TRUE)
         IN IF minutes.ok /\ hours.ok /\ days.ok /\ months.ok /\ weekdays.ok
            THEN [ok |-> TRUE, minutes |-> minutes, hours |-> hours, days |-> days,
                  months |-> months, weekdays |-> weekdays]
            ELSE [ok |-> FALSE]

\* A datetime: month, day, hour, minute, second, weekday as
\* datetime.weekday() gives it (Monday 0 ... Sunday 6), and year counted
\* from the year of now (no leap year).
DaysIn(month) == IF month = 2 THEN 28 ELSE IF month \in {4, 6, 9, 11} THEN 30 ELSE 31

\* dt + timedelta(days=1)
AddDay(dt) ==
    LET wd == (dt.weekday + 1) % 7 IN
    IF dt.day < DaysIn(dt.month) THEN [dt EXCEPT !.day = @ + 1, !.weekday = wd]
    ELSE IF dt.month < 12 THEN [dt EXCEPT !.day = 1, !.month = @ + 1, !.weekday = wd]
    ELSE [dt EXCEPT !.day = 1, !.month = 1, !.year = @ + 1, !.weekday = wd]

\* dt + timedelta(minutes=1)
AddMinute(dt) ==
    IF dt.minute < 59 THEN [dt EXCEPT !.minute = @ + 1]
    ELSE IF dt.hour < 23 THEN [dt EXCEPT !.minute = 0, !.hour = @ + 1]
    ELSE AddDay([dt EXCEPT !.minute = 0, !.hour = 0])

In(value, parsed) == parsed.any \/ value \in parsed.values

\* _match
Match(cron, dt) ==
    /\ In(dt.minute, cron.minutes)
    /\ In(dt.hour, cron.hours)
    /\ In(dt.day, cron.days)
    /\ In(dt.month, cron.months)
    /\ In(dt.weekday, cron.weekdays)

\* candidate = now.replace(second=0, microsecond=0) + timedelta(minutes=1)
FirstCandidate(now) == AddMinute([now EXCEPT !.second = 0])

\* The loop of next_after: the k-th candidate; found is false where the
\* source raises ValueError after the last one.
RECURSIVE NextAfterLoop(_, _, _)
NextAfterLoop(cron, candidate, k) ==
    IF k > SearchCap THEN [found |-> FALSE, k |-> k, at |-> candidate]
    ELSE IF Match(cron, candidate) THEN [found |-> TRUE, k |-> k, at |-> candidate]
    ELSE Given(AddMinute(candidate), LAMBDA next : NextAfterLoop(cron, next, k + 1))

\* next_after(now): k is the number of minutes from the minute of now to
\* the result.
NextAfter(cron, now) ==
    Given(cron, LAMBDA parsed :
        Given(FirstCandidate(now), LAMBDA candidate : NextAfterLoop(parsed, candidate, 1)))

\* ------------------------------------- CrawlScheduler._next_interval_seconds
\* _normalize_cron: config.cron stripped, else "M H * * *" from daily_time
\* "H:M", else None (given is false). A string is its list of fields
\* (str.split()); text tells whether the string is non-empty.
NormalizeCron(config) ==
    IF config.cron.text THEN [given |-> TRUE, parts |-> config.cron.parts]
    ELSE IF config.daily_time.text
         THEN LET hm == Split(config.daily_time.chars, ":") IN
              IF Len(hm) = 2 /\ ParseInt(hm[1]).ok /\ ParseInt(hm[2]).ok
              THEN [given |-> TRUE,
                    parts |-> <<hm[2], hm[1], <<"*">>, <<"*">>, <<"*">>>>]
              ELSE [given |-> FALSE, parts |-> <<>>]
         ELSE [given |-> FALSE, parts |-> <<>>]

\* An interval that counts as soon as it is set.
IntervalSet(interval_minutes) == interval_minutes # 0

\* if self.config.interval_minutes and self.config.interval_minutes > 0
\* (None is taken as 0: both are false in the first test)
IntervalPositive(interval_minutes) == interval_minutes # 0 /\ interval_minutes > 0

SecondOfDay(dt) == dt.hour * 3600 + dt.minute * 60 + dt.second

\* target = now.replace(hour=7, minute=0, second=0, microsecond=0);
\* if target <= now: target += timedelta(days=1); (target - now).total_seconds()
SecondsToSeven(now) ==
    LET target == 7 * 3600 IN
    IF target <= SecondOfDay(now) THEN target + 86400 - SecondOfDay(now)
    ELSE target - SecondOfDay(now)

\* A cron branch that lets the exception of SimpleCron or next_after out.
OnCronErrorRaises == [branch |-> "raised", wait |-> 0]

\* except Exception: return 3600
OnCronError == [branch |-> "except", wait |-> 3600]

\* _next_interval_seconds: branch tells which return statement gave the wait.
NextIntervalSeconds(config, now) ==
    Given(NormalizeCron(config), LAMBDA cron_expr :
        IF IntervalPositive(config.interval_minutes)
        THEN [branch |-> "interval", wait |-> config.interval_minutes * 60]
        ELSE IF cron_expr.given /\ cron_expr.parts # <<>>
        THEN Given(SimpleCron(cron_expr.parts), LAMBDA cron :
                 IF ~cron.ok THEN OnCronError
                 ELSE Given(NextAfter(cron, now), LAMBDA next :
                          IF next.found
                          THEN [branch |-> "cron", wait |-> next.k * 60 - now.second]
                          ELSE OnCronError))
        ELSE [branch |-> "seven", wait |-> SecondsToSeven(now)])

\* The configurations and instants the functions are applied to. A cron
\* string is None or holds at least one field (_build_scheduler_config
\* strips it and turns an empty one into None).
Star == <<"*">>
CronStrings ==
    { [text |-> FALSE, parts |-> <<>>],
      [text |-> TRUE, parts |-> <<<<"*", "/", "5">>, Star, Star, Star, Star>>],
      [text |-> TRUE, parts |-> <<Star, Star, Star, Star, <<"0">>>>],
      [text |-> TRUE, parts |-> <<Star, Star, Star, Star, <<"7">>>>],
      [text |-> TRUE, parts |-> <<Star, Star, Star, Star, <<"1", ",", "7">>>>],
      [text |-> TRUE, parts |-> <<Star, Star, Star, Star, <<"5", "-", "7">>>>],
      [text |-> TRUE, parts |-> <<<<"0">>, <<"0">>, <<"31">>, <<"2">>, Star>>],
      [text |-> TRUE, parts |-> <<<<"0">>, <<"7">>, Star, Star, Star>>],
      [text |-> TRUE, parts |-> <<<<"58", ",", "0">>, <<"23", ",", "0">>, <<"1">>, <<"1", "-", "2">>, Star>>],
      [text |-> TRUE, parts |-> <<<<"70">>, Star, Star, Star, Star>>],
      [text |-> TRUE, parts |-> <<<<"x">>, Star, Star, Star, Star>>],
      [text |-> TRUE, parts |-> <<Star, Star, Star, Star>>] }

DailyTimes ==
    { [text |-> FALSE, chars |-> <<>>],
      [text |-> TRUE, chars |-> <<"7", ":", "0">>],
      [text |-> TRUE, chars |-> <<"0", ":", "0">>],
      [text |-> TRUE, chars |-> <<"x">>] }

Intervals == {0 - 1, 0, 2}

Configs == [interval_minutes : Intervals, cron : CronStrings, daily_time : DailyTimes]

Instant(month, day, hour, minute, second, weekday) ==
    [month |-> month, day |-> day, hour |-> hour, minute |-> minute,
     second |-> second, weekday |-> weekday, year |-> 0]

Instants ==
    { Instant(11, 1, 23, 58, 0, 6), Instant(12, 31, 23, 58, 30, 3),
      Instant(2, 28, 23, 59, 59, 5), Instant(6, 15, 6, 55, 0, 0),
      Instant(6, 15, 6, 59, 30, 6), Instant(6, 15, 7, 0, 0, 2),
      Instant(6, 14, 10, 2, 10, 6) }

\* No date of any year matches the days and months of the expression.
NeverMatches(cron) ==
    ~\E month \in 1..12 : \E day \in 1..(IF month = 2 THEN 29 ELSE DaysIn(month)) :
        In(day, cron.days) /\ In(month, cron.months)

\* The search of next_after ends the same way with SearchCap as with one year.
SameAsOneYear(config, now) ==
    Given(NormalizeCron(config), LAMBDA cron_expr :
        \/ ~cron_expr.given
        \/ cron_expr.parts = <<>>
        \/ Given(SimpleCron(cron_expr.parts), LAMBDA cron :
               \/ ~cron.ok
               \/ NextAfter(cron, now).found
               \/ NeverMatches(cron)))

CronCases == { c \in [config : Configs, now : Instants] : SameAsOneYear(c.config, c.now) }

\* _run_forever after wait_seconds = self._next_interval_seconds(): an
\* exception ends the loop thread, else it sleeps wait_seconds, or one
\* second when that is not positive.
AfterInterval(result) ==
    IF result.branch = "raised" THEN [thread |-> "ended", wait_seconds |-> 0]
    ELSE [thread |-> "alive", wait_seconds |-> IF result.wait <= 0 THEN 1 ELSE result.wait]

\* wait_seconds = self._next_interval_seconds() for one configuration at one
\* instant; cron and next are what SimpleCron(expr) and next_after(now) give
\* for its expression, loop is what the loop thread does with the result.
CronEvaluate ==
    /\ call = NoCall
    /\ \E c \in CronCases :
          \E cron_expr \in {NormalizeCron(c.config)} :
          \E cron \in {SimpleCron(cron_expr.parts)} :
          \E result \in {NextIntervalSeconds(c.config, c.now)} :
          call' = [op |-> "next_interval_seconds", config |-> c.config, now |-> c.now,
                   cron_expr |-> cron_expr,
                   cron |-> cron,
                   next |-> IF cron.ok THEN NextAfter(cron, c.now)
                            ELSE [found |-> FALSE, k |-> 0, at |-> c.now],
                   result |-> result,
                   loop |-> AfterInterval(result)]
    /\ UNCHANGED <<env, app, useDb, status, lock, pc, ret, run, bidRows, articleRows, fetch, sch>>

\* The day-of-week fields _parse_field is applied to.
WeekdayFields ==
    { <<"7">>, <<"0">>, <<"1", ",", "7">>, <<"5", "-", "7">>, <<"6">>, <<"1", "-", "5">>,
      <<"7", ",", "6">>, <<"*", "/", "2">>, <<"*">> }

\* self._parse_field(parts[4], 0, 6, allow_sunday_seven=True)
CronParseWeekdays ==
    /\ call = NoCall
    /\ \E field \in WeekdayFields :
          call' = [op |-> "parse_field", field |-> field,
                   parsed |-> ParseField(field, 0, 6, TRUE)]
    /\ UNCHANGED <<env, app, useDb, status, lock, pc, ret, run, bidRows, articleRows, fetch, sch>>

NextCron ==
    \/ CronEvaluate
    \/ CronParseWeekdays

\* The functions of the scheduler that compute the wait, applied one call
\* at a time.
InitCron ==
    /\ env = [callers |-> {}, store |-> FALSE, fetcher |-> FALSE, scheduler |-> TRUE,
              max_articles |-> CtlArticles, max_bids |-> CtlBids]
    /\ InitCommon
    /\ ~useDb

SpecCron == InitCron /\ [][NextCron]_vars

\* -------------------------------------------------------- DefaultParser
\* Article text is a sequence of tokens: a label of _LABELS, ":" (a colon,
\* ASCII or full-width), " " (white space), a digit, "-", "a" (an ASCII
\* letter), "yuan" (the character of the currency) or a word of Chinese
\* characters that holds none of these ("W5" and "V5" of five characters,
\* "w", "v", "u", "d" of one).
DefaultLabels == {"NAME", "BUDGET", "PURCHASER", "DOCTIME", "NUMBER", "PERIOD", "CONTENT"}
DigitTokens == {"1", "2"}

\* len() of a token and of a text.
Width(tok) ==
    CASE tok \in {"NAME", "BUDGET", "NUMBER", "PERIOD", "CONTENT"} -> 4
      [] tok = "PURCHASER" -> 3
      [] tok = "DOCTIME" -> 6
      [] tok \in {"W5", "V5"} -> 5
      [] OTHER -> 1

RECURSIVE TextLen(_)
TextLen(s) == IF s = <<>> THEN 0 ELSE Width(Head(s)) + TextLen(Tail(s))

Greatest(S) == CHOOSE x \in S : \A y \in S : y <= x
Least(S) == CHOOSE x \in S : \A y \in S : x <= y

\* \s* from position j: the position after the white space.
RECURSIVE SkipSpace(_, _)
SkipSpace(text, j) ==
    IF j <= Len(text) /\ text[j] = " " THEN SkipSpace(text, j + 1) ELSE j

\* (?=\s*(?:{boundaries}|\Z)) at position j, the boundaries being the
\* labels other than the pattern's own.
Boundary(text, j, labels, label) ==
    LET k == SkipSpace(text, j) IN
    k > Len(text) \/ (text[k] \in labels /\ text[k] # label)

\* [:：\s]* from position j: the length of the longest run.
RECURSIVE SepRun(_, _)
SepRun(text, j) ==
    IF j <= Len(text) /\ text[j] \in {":", " "} THEN 1 + SepRun(text, j + 1) ELSE 0

\* [A-Za-z0-9\-]
NumberChar(tok) == tok \in DigitTokens \cup {"-", "a"}

\* The matches <<i, from, to>> of the pattern of _build_pattern: the label
\* at i, separators up to from, the value from..to (any characters for .+?
\* with DOTALL, characters of the class for project_number, at least one),
\* and the boundary after it.
PatternMatches(text, labels, label, greedy) ==
    UNION { { <<i, from, to>> : from \in (i + 1)..(i + 1 + SepRun(text, i + 1)),
                               to \in (i + 1)..Len(text) }
            : i \in {p \in 1..Len(text) : text[p] = label} }

PatternMatch(text, labels, label, greedy, m) ==
    /\ m[2] <= m[3]
    /\ greedy => \A q \in m[2]..m[3] : NumberChar(text[q])
    /\ Boundary(text, m[3] + 1, labels, label)

\* The order in which the regex engine finds matches: the leftmost label,
\* then the longest run of separators, then the shortest value for .+? and
\* the longest for [A-Za-z0-9\-]+.
FoundBefore(m, o, greedy) ==
    \/ m[1] < o[1]
    \/ m[1] = o[1] /\ m[2] > o[2]
    \/ m[1] = o[1] /\ m[2] = o[2] /\ (IF greedy THEN m[3] >= o[3] ELSE m[3] <= o[3])

\* pattern.search(text): the first match found.
PatternSearch(text, labels, label, greedy) ==
    Given({m \in PatternMatches(text, labels, label, greedy) :
              PatternMatch(text, labels, label, greedy, m)},
          LAMBDA found :
             IF found = {} THEN [ok |-> FALSE, value |-> <<>>]
             ELSE Given(CHOOSE m \in found : \A o \in found : FoundBefore(m, o, greedy),
                        LAMBDA m : [ok |-> TRUE, value |-> SubSeq(text, m[2], m[3])]))

\* _extract_field: group 1 of the first match, stripped; "" without a match.
ExtractField(text, label, greedy) ==
    Given(PatternSearch(text, DefaultLabels, label, greedy),
          LAMBDA match : IF ~match.ok THEN <<>> ELSE Strip(match.value))

\* \d+ from position j: the position after the digits.
RECURSIVE SkipDigits(_, _)
SkipDigits(text, j) ==
    IF j <= Len(text) /\ text[j] \in DigitTokens THEN SkipDigits(text, j + 1) ELSE j

\* project_split_pattern (\d+\s*NAME) matches from position i.
MarkerAt(text, i) ==
    /\ text[i] \in DigitTokens
    /\ LET k == SkipSpace(text, SkipDigits(text, i)) IN k <= Len(text) /\ text[k] = "NAME"

\* finditer: the starts of the matches, each at the first digit of its run.
MarkerStarts(text) ==
    {i \in 1..Len(text) : MarkerAt(text, i) /\ (i = 1 \/ text[i - 1] \notin DigitTokens)}

\* text[start:end] for the match that starts at start: up to the start of
\* the next match, or to the end of the text.
BlockFrom(text, starts, start) ==
    SubSeq(text, start,
           IF \E t \in starts : t > start
           THEN Least({t \in starts : t > start}) - 1 ELSE Len(text))

\* _split_projects
SplitProjects(text) ==
    Given(MarkerStarts(text),
          LAMBDA starts :
             IF starts = {} THEN (IF "NAME" \in Range(text) THEN <<text>> ELSE <<>>)
             ELSE [k \in 1..Cardinality(starts) |->
                      BlockFrom(text, starts,
                                CHOOSE t \in starts : Cardinality({u \in starts : u < t}) = k - 1)])

\* fields = {field: self._extract_field(pattern, normalized_block) ...}
BlockFields(block) ==
    [project_name |-> ExtractField(block, "NAME", FALSE),
     budget |-> ExtractField(block, "BUDGET", FALSE),
     purchaser |-> ExtractField(block, "PURCHASER", FALSE),
     doc_time |-> ExtractField(block, "DOCTIME", FALSE),
     project_number |-> ExtractField(block, "NUMBER", TRUE),
     service_period |-> ExtractField(block, "PERIOD", FALSE),
     content |-> ExtractField(block, "CONTENT", FALSE)]

\* _validate_required_fields
ValidateRequiredFields(fields) ==
    /\ Strip(fields.project_name) # <<>>
    /\ Strip(fields.budget) # <<>>
    /\ Strip(fields.purchaser) # <<>>
    /\ Strip(fields.doc_time) # <<>>
    /\ "yuan" \in Range(fields.budget)
    /\ TextLen(fields.project_name) >= 5

\* hashlib.md5(unique_key.encode("utf-8")).hexdigest()[:16]: a string that
\* differs for the keys of the model that differ.
Md5Hex(unique_key) == ToString(unique_key)

\* unique_key = f"{project_name}-{purchaser}"
UniqueKey(project_name, purchaser) == project_name \o <<"-">> \o purchaser

\* DefaultParser._generate_id / DaDanWangParser._generate_id
ParserGenerateId(project_name, purchaser) == Md5Hex(UniqueKey(project_name, purchaser))

\* str(metadata.get(key, "")): None prints as "None".
MetaStr(meta, key) == IF key \in DOMAIN meta THEN meta[key] ELSE ""

\* A record whose id also depends on the time of the extraction.
BidInfoTimed(fields, doc_time, meta, now) ==
    [id |-> Md5Hex(UniqueKey(fields.project_name, fields.purchaser) \o <<now>>),
     project_name |-> fields.project_name, budget |-> fields.budget,
     purchaser |-> fields.purchaser, doc_time |-> doc_time,
     project_number |-> fields.project_number, service_period |-> fields.service_period,
     content |-> fields.content,
     source_url |-> MetaStr(meta, "url"), source_title |-> MetaStr(meta, "title"),
     extracted_time |-> now, status |-> "new"]

\* BidInfo(...).to_dict()
BidInfo(fields, doc_time, meta, now) ==
    [id |-> ParserGenerateId(fields.project_name, fields.purchaser),
     project_name |-> fields.project_name, budget |-> fields.budget,
     purchaser |-> fields.purchaser, doc_time |-> doc_time,
     project_number |-> fields.project_number, service_period |-> fields.service_period,
     content |-> fields.content,
     source_url |-> MetaStr(meta, "url"), source_title |-> MetaStr(meta, "title"),
     extracted_time |-> now, status |-> "new"]

\* One round of the loop of DefaultParser.extract: the record of a block, if
\* its fields are valid.
BlockBids(block, meta, now) ==
    Given(Strip(block),
          LAMBDA normalized_block :
             Given(BlockFields(normalized_block),
                   LAMBDA fields :
                      IF ValidateRequiredFields(fields)
                      THEN <<BidInfo(fields, fields.doc_time, meta, now)>> ELSE <<>>))

\* The loop of DefaultParser.extract over the project blocks.
RECURSIVE DefaultBlocks(_, _, _, _)
DefaultBlocks(project_blocks, index, meta, now) ==
    IF index > Len(project_blocks) THEN <<>>
    ELSE BlockBids(project_blocks[index], meta, now)
           \o DefaultBlocks(project_blocks, index + 1, meta, now)

\* DefaultParser.extract
DefaultParserExtract(text, meta, now) ==
    IF text = <<>> THEN [raised |-> FALSE, bids |-> <<>>]
    ELSE Given(SplitProjects(text),
               LAMBDA project_blocks :
                  [raised |-> FALSE, bids |-> DefaultBlocks(project_blocks, 1, meta, now)])

\* ------------------------------------------------------ DaDanWangParser
\* The labels of this parser: NAME and BUDGET as above, "UNIT", "TARGET",
\* "REQUIRE", "PLANTIME", "NOTICE".  Its texts also hold "LQ" and "RQ" (the
\* title quotes), "CO" and "BU" (company, bureau), "PUB" (published), ","
\* (the full-width comma), "BW" (the word budget alone) and "wan" (the ten
\* thousand or hundred million character).  White space is blanks, no line
\* break, so that "." and "$" of these patterns, compiled without DOTALL,
\* act as they do in one line of text.
DdwLabels == {"NAME", "BUDGET", "UNIT", "TARGET", "REQUIRE", "PLANTIME", "NOTICE"}

\* [一-龥]
HanChar(tok) ==
    tok \in DefaultLabels \cup DdwLabels
            \cup {"W5", "V5", "w", "v", "u", "d", "yuan", "CO", "BU", "PUB", "BW", "wan"}

\* rf"{label}[:：\s]*(.*?)(?={label_pattern}|$)" from position i: after the
\* separators the shortest value, which may be empty, up to a label or the end.
DdwValue(text, from) ==
    SubSeq(text, from,
           Least({to \in (from - 1)..Len(text) : to = Len(text) \/ text[to + 1] \in DdwLabels}))

\* pattern.search(text), match.group(1).strip(), "" without a match
DdwField(text, label) ==
    Given({i \in 1..Len(text) : text[i] = label},
          LAMBDA at :
             IF at = {} THEN <<>>
             ELSE Given(Least(at) + 1 + SepRun(text, Least(at) + 1),
                        LAMBDA from : Strip(DdwValue(text, from))))

\* re.search(r"《(.*?)》", text), group(1).strip(); "" without a match
QuotedTitle(text) ==
    Given({i \in 1..Len(text) : text[i] = "LQ" /\ \E j \in (i + 1)..Len(text) : text[j] = "RQ"},
          LAMBDA at :
             IF at = {} THEN <<>>
             ELSE Given(Least(at),
                        LAMBDA i : Strip(SubSeq(text, i + 1,
                                      Least({j \in (i + 1)..Len(text) : text[j] = "RQ"}) - 1))))

\* The ends of [一-龥]+{suffix} that starts at i and has "PUB" after it.
OrgEnds(text, i, suffix) ==
    {j \in (i + 1)..(Len(text) - 1) :
        /\ \A q \in i..(j - 1) : HanChar(text[q])
        /\ text[j] = suffix
        /\ text[j + 1] = "PUB"}

\* re.search(r"([一-龥]+公司|[一-龥]+局)发布", text): the leftmost start,
\* the company alternative first, the longest run.
OrgBeforePublished(text) ==
    Given({i \in 1..Len(text) : OrgEnds(text, i, "CO") \cup OrgEnds(text, i, "BU") # {}},
          LAMBDA at :
             IF at = {} THEN <<>>
             ELSE Given(Least(at),
                        LAMBDA i :
                           SubSeq(text, i,
                                  IF OrgEnds(text, i, "CO") # {}
                                  THEN Greatest(OrgEnds(text, i, "CO"))
                                  ELSE Greatest(OrgEnds(text, i, "BU")))))

\* re.search(r"，(.*?)(?=发布)", text), group(1).strip()
SubjectBeforePublished(text) ==
    Given({i \in 1..Len(text) : text[i] = "," /\ \E j \in (i + 1)..Len(text) : text[j] = "PUB"},
          LAMBDA at :
             IF at = {} THEN <<>>
             ELSE Given(Least(at),
                        LAMBDA i : Strip(SubSeq(text, i + 1,
                                      Least({j \in (i + 1)..Len(text) : text[j] = "PUB"}) - 1))))

\* [万亿]?元? from position a: the position after them.
UnitEnd(text, a) ==
    Given(IF a <= Len(text) /\ text[a] = "wan" THEN a + 1 ELSE a,
          LAMBDA b : IF b <= Len(text) /\ text[b] = "yuan" THEN b + 1 ELSE b)

\* re.search(r"预算[:：\s]*([\d\.]+\s*[万亿]?元?)", text), group(1).strip():
\* the texts of the model hold no ".".
BudgetFallback(text) ==
    Given({i \in 1..Len(text) :
              /\ text[i] = "BW"
              /\ i + 1 + SepRun(text, i + 1) <= Len(text)
              /\ text[i + 1 + SepRun(text, i + 1)] \in DigitTokens},
          LAMBDA at :
             IF at = {} THEN <<>>
             ELSE Given(Least(at) + 1 + SepRun(text, Least(at) + 1),
                        LAMBDA from :
                           Strip(SubSeq(text, from,
                                        UnitEnd(text, SkipSpace(text, SkipDigits(text, from))) - 1))))

\* if not fields["purchaser"]: the organisation before "published", else the
\* text between a comma and "published".
PurchaserFallback(text) ==
    Given(OrgBeforePublished(text),
          LAMBDA org : IF org # <<>> THEN Strip(org) ELSE SubjectBeforePublished(text))

\* a or b of two strings
OrElse(a, b) == Given(a, LAMBDA v : IF v # <<>> THEN v ELSE b)

\* The fields of DaDanWangParser.extract after the fallbacks of the short format.
DdwFields(text) ==
    [project_name |-> OrElse(DdwField(text, "NAME"), QuotedTitle(text)),
     budget |-> OrElse(DdwField(text, "BUDGET"), BudgetFallback(text)),
     purchaser |-> OrElse(DdwField(text, "UNIT"), PurchaserFallback(text)),
     doc_time |-> DdwField(text, "PLANTIME"),
     content |-> DdwField(text, "TARGET"),
     project_number |-> <<>>, service_period |-> <<>>]

\* Titles of articles: a call for tenders, a title with one of
\* winning_keywords, None.
ArticleTitles == {"tender", "award", None}

\* title = article_meta.get("title", "");
\* any(kw in title for kw in self.winning_keywords): a TypeError for None.
TitleCheck(meta) ==
    IF "title" \notin DOMAIN meta THEN "tender"
    ELSE IF meta.title = None THEN "TypeError"
    ELSE IF meta.title = "award" THEN "winning" ELSE "tender"

\* The record of DaDanWangParser.extract, if the project name and the
\* budget were found; a missing window becomes the date of today.
DdwBids(fields, meta, now) ==
    IF fields.project_name = <<>> \/ fields.budget = <<>> THEN <<>>
    ELSE <<BidInfo(fields, OrElse(fields.doc_time, <<now>>), meta, now)>>

\* DaDanWangParser.extract
DaDanWangParserExtract(text, meta, now) ==
    IF text = <<>> THEN [raised |-> FALSE, bids |-> <<>>]
    ELSE IF TitleCheck(meta) = "TypeError" THEN [raised |-> TRUE, bids |-> <<>>]
    ELSE IF TitleCheck(meta) = "winning" THEN [raised |-> FALSE, bids |-> <<>>]
    ELSE [raised |-> FALSE,
          bids |-> Given(DdwFields(text), LAMBDA fields : DdwBids(fields, meta, now))]

\* ------------------------------------------------------ BidInfoExtractor
\* self.parsers: the names with a parser of their own.
RegisteredParser(source_name) ==
    IF source_name = "dadanwang" THEN "DaDanWangParser" ELSE "DefaultParser"

\* source_name = metadata.get("source_account_name", "default");
\* parser = self.parsers.get(source_name, self.default_parser)
ParserFor(meta) ==
    IF "source_account_name" \in DOMAIN meta
    THEN RegisteredParser(meta.source_account_name) ELSE "DefaultParser"

\* BidInfoExtractor.extract_from_text
ExtractRecords(text, meta, now) ==
    IF text = <<>> THEN [raised |-> FALSE, bids |-> <<>>, parser |-> "none"]
    ELSE Given(IF ParserFor(meta) = "DaDanWangParser"
               THEN DaDanWangParserExtract(text, meta, now)
               ELSE DefaultParserExtract(text, meta, now),
               LAMBDA result :
                  [raised |-> result.raised, bids |-> result.bids, parser |-> ParserFor(meta)])

\* ------------------------------------------------- extraction, inputs
\* A labelled field as the articles write it.
Field(label, value) == <<label, ":">> \o value

\* A project block with the four required fields in the usual order.
PlainBlock(project_name, budget, purchaser, doc_time) ==
    Field("NAME", project_name) \o Field("BUDGET", budget)
        \o Field("PURCHASER", purchaser) \o Field("DOCTIME", doc_time)

\* The project blocks of the model, without their index: complete ones (a
\* hyphen in the name or in the purchaser, the fields in another order with
\* optional ones, a window that ends with a digit), and blocks in which a
\* required field is missing, is empty, or fails the validation.
ParseBlocks ==
    { PlainBlock(<<"W5">>, <<"1", "yuan">>, <<"v">>, <<"d">>),
      PlainBlock(<<"W5", "-", "w">>, <<"1", "yuan">>, <<"v">>, <<"d">>),
      PlainBlock(<<"W5">>, <<"1", "yuan">>, <<"w", "-", "v">>, <<"d">>),
      PlainBlock(<<"W5">>, <<"1", "yuan">>, <<"u">>, <<"d", "2">>),
      Field("NAME", <<"V5">>) \o Field("DOCTIME", <<"d">>) \o Field("NUMBER", <<"a", "-", "1">>)
          \o Field("PURCHASER", <<"u">>) \o Field("BUDGET", <<"2", "yuan">>)
          \o Field("PERIOD", <<"d">>),
      Field("NAME", <<"W5">>) \o Field("BUDGET", <<"1", "yuan">>),
      PlainBlock(<<"W5">>, <<"1", "yuan">>, <<>>, <<"d">>),
      Field("NAME", <<"W5">>) \o Field("BUDGET", <<"1", "yuan">>) \o Field("DOCTIME", <<"d">>)
          \o Field("PURCHASER", <<>>),
      PlainBlock(<<>>, <<"1", "yuan">>, <<"v">>, <<"d">>),
      PlainBlock(<<"W5">>, <<"1", "yuan">>, <<"v">>, <<>>),
      PlainBlock(<<"W5">>, <<"1">>, <<"v">>, <<"d">>),
      PlainBlock(<<"w">>, <<"1", "yuan">>, <<"v">>, <<"d">>) }

\* The text of an article that lists the blocks, each after its index.
RECURSIVE Numbered(_, _)
Numbered(blocks, k) ==
    IF k > Len(blocks) THEN <<>>
    ELSE <<IF k = 1 THEN "1" ELSE "2">> \o blocks[k] \o Numbered(blocks, k + 1)

\* Texts without a numbered block: empty, without a label, one block without
\* index, and two articles in the format of the other parser.
RawTexts ==
    { <<>>, <<"w", "d">>,
      PlainBlock(<<"W5">>, <<"1", "yuan">>, <<"v">>, <<"d">>),
      Field("UNIT", <<"v">>) \o Field("NAME", <<"W5">>) \o Field("BUDGET", <<"1", "wan", "yuan">>),
      <<"w", "CO", "PUB", "LQ", "W5", "RQ", ",", "BW", "1", "wan", "yuan">> }

ParseTexts ==
    RawTexts \cup UNION { {Numbered(blocks, 1) : blocks \in [1..n -> ParseBlocks]} : n \in 1..MaxBids }

\* Names of source accounts: the one with a parser of its own, another one.
AccountNames == {"dadanwang", "other"}

\* Article metadata handed to the extractor: the url, with or without the
\* name of the source account and a title.
ArticleMetas ==
    {[url |-> "U1"]}
      \cup {[url |-> "U1", title |-> t] : t \in ArticleTitles}
      \cup {[url |-> "U1", source_account_name |-> a] : a \in AccountNames}
      \cup {[url |-> "U1", source_account_name |-> a, title |-> t] :
               a \in AccountNames, t \in ArticleTitles}

\* self.extractor.extract_from_text(text, article_meta), called once.
ExtractFromTextCall ==
    /\ call = NoCall
    /\ \E text \in ParseTexts, meta \in ArticleMetas :
          call' = [op |-> "extract_from_text", text |-> text, meta |-> meta, runs |-> 0,
                   result |-> ExtractRecords(text, meta, 0)]
    /\ UNCHANGED <<env, app, useDb, status, lock, pc, ret, run, bidRows, articleRows, fetch, sch>>

\* The runs that process an article.
MaxRuns == 2

\* The bodies of the articles the runs retrieve.
RunTexts ==
    { Numbered(<<PlainBlock(<<"W5">>, <<"1", "yuan">>, <<"v">>, <<"d">>)>>, 1),
      Numbered(<<PlainBlock(<<"V5">>, <<"1", "yuan">>, <<"v">>, <<"d">>),
                 PlainBlock(<<"W5">>, <<"1", "yuan">>, <<"v">>, <<"d", "2">>)>>, 1),
      Field("UNIT", <<"v">>) \o Field("NAME", <<"W5">>) \o Field("BUDGET", <<"1", "wan", "yuan">>),
      <<"w", "d">> }

\* parse_html and scrape_article: the title when the page has one, the
\* body, the url; nothing of the listed article but its url.
ScrapedArticle(article, title, content_text) ==
    IF title = "" THEN [content_text |-> content_text, url |-> article.url]
    ELSE [title |-> title, content_text |-> content_text, url |-> article.url]

\* One article of a run, from the list to the store: fetch_all_articles
\* lists it with the name of its account, scrape_articles_batch retrieves
\* its url, extract_from_text gets the retrieved article as metadata, and
\* save_bids stores the bids when there are any.  An exception of the
\* extractor leaves the loop before anything is saved.
RunExtract ==
    /\ call.op \in {"none", "run_extract"}
    /\ call.op = "run_extract" => call.runs < MaxRuns /\ ~call.result.raised
    /\ \E account \in AccountNames, url \in {"U1", "U2"}, title \in {"", "tender"},
          content_text \in RunTexts :
          LET article == [url |-> url, source_account_name |-> account]
              article_data == ScrapedArticle(article, title, content_text)
              runs == IF call.op = "none" THEN 1 ELSE call.runs + 1
          IN \E result \in {ExtractRecords(article_data.content_text, article_data, runs)} :
             /\ call' = [op |-> "run_extract", article |-> article, meta |-> article_data,
                         text |-> content_text, runs |-> runs, result |-> result]
             /\ bidRows' = IF ~result.raised /\ result.bids # <<>>
                           THEN SaveBids(useDb, bidRows, result.bids).stored
                           ELSE bidRows
    /\ UNCHANGED <<env, app, useDb, status, lock, pc, ret, run, articleRows, fetch, sch>>

\* The labelled fields that follow the project name in one block.
MaxFields == 3

\* The labels after the project name, in the order of the block: any of
\* the other labels, none of them twice.
FieldOrders ==
    { order \in SeqsUpTo(DefaultLabels \ {"NAME"}, MaxFields) :
         \A j, k \in 1..Len(order) : j # k => order[j] # order[k] }

\* What the articles write after a label: a budget, a name, a window with a
\* blank inside, a number of letters, digits and hyphens, a period, a word.
UsualValue(label) ==
    CASE label = "BUDGET" -> <<"1", "yuan">>
      [] label = "PURCHASER" -> <<"v">>
      [] label = "DOCTIME" -> <<"d", " ", "2">>
      [] label = "NUMBER" -> <<"a", "-", "1">>
      [] label = "PERIOD" -> <<"u">>
      [] OTHER -> <<"w">>

\* The values of the fields of an order: the usual ones, one of them left
\* empty, or a project number that ends with a word.
FieldValues(order) ==
    {[label \in Range(order) |-> UsualValue(label)]}
      \cup {[label \in Range(order) |-> IF label = blank THEN <<>> ELSE UsualValue(label)] :
               blank \in Range(order)}
      \cup {[label \in Range(order) |-> IF label = "NUMBER" THEN <<"a", "w">>
                                         ELSE UsualValue(label)] :
               x \in {l \in Range(order) : l = "NUMBER"}}

\* The block: the project name, then the fields in their order.
RECURSIVE FieldsInOrder(_, _, _)
FieldsInOrder(order, given, k) ==
    IF k > Len(order) THEN <<>>
    ELSE Field(order[k], given[order[k]]) \o FieldsInOrder(order, given, k + 1)

OrderedBlock(order, given) == Field("NAME", <<"W5">>) \o FieldsInOrder(order, given, 1)

\* fields = {field: self._extract_field(pattern, normalized_block) ...} for
\* one block, as the loop of DefaultParser.extract computes it.
ExtractBlockFields ==
    /\ call = NoCall
    /\ \E order \in FieldOrders :
       \E given \in FieldValues(order) :
       \E block \in {OrderedBlock(order, given)} :
          call' = [op |-> "block_fields", order |-> order, given |-> given, block |-> block,
                   fields |-> BlockFields(Strip(block))]
    /\ UNCHANGED <<env, app, useDb, status, lock, pc, ret, run, bidRows, articleRows, fetch, sch>>

NextParse == ExtractFromTextCall \/ RunExtract \/ ExtractBlockFields

\* The extractor alone, and the extractor inside the runs.
InitParse ==
    /\ env = [callers |-> {}, store |-> FALSE, fetcher |-> FALSE, scheduler |-> FALSE,
              max_articles |-> CtlArticles, max_bids |-> CtlBids]
    /\ InitCommon

SpecParse == InitParse /\ [][NextParse]_vars

\* ------------------------------------- CrawlController.status, its lock
\* The status dict written key by key: start() and _update_status hold the
\* lock while status.update(...) stores its keys in their order, and
\* get_status holds it while dict(self.status) copies them.  call holds the
\* writers: the keys each has still to store, the position of the task,
\* the status the last complete update left, what the run under way wrote
\* as progress and last_error, and the last copy get_status returned.
StatusWriters == {"start", "task"}

NoStatusCall ==
    [op |-> "status", task |-> "none", next |-> "none",
     pending |-> [w \in StatusWriters |-> <<>>],
     committed |-> InitialStatus,
     written |-> [progress |-> 0, last_error |-> None],
     after_error |-> FALSE,
     snapshot |-> [taken |-> FALSE]]

StatusCall == IF call.op = "status" THEN call ELSE NoStatusCall

\* self.status.update({...}) of start()
ResetUpdate ==
    << <<"is_running", TRUE>>, <<"progress", 0>>, <<"total", 0>>,
       <<"message", "init">>, <<"last_error", None>> >>

\* The update_status calls of the task, by its position: the first one of
\* runner.run, one of the progress callback, the closing one, the one of
\* the except clause, the one of the finally clause; each with the
\* position that follows it.
TaskUpdates(position) ==
    CASE position = "begin" ->
           {[kwargs |-> << <<"message", "fetching">>, <<"progress", 0>>, <<"total", 0>>,
                           <<"last_error", None>> >>, next |-> "work"]}
      [] position = "work" ->
           {[kwargs |-> << <<"progress", 1>>, <<"total", 1>>, <<"message", "scraping item">> >>,
             next |-> "close"]}
             \cup {[kwargs |-> << <<"message", FailMsg(e)>>, <<"last_error", e>> >>,
                     next |-> "finally"] : e \in Errors}
      [] position = "close" ->
           {[kwargs |-> << <<"message", "done, nothing new">> >>, next |-> "finally"]}
      [] position = "finally" ->
           {[kwargs |-> << <<"is_running", FALSE>> >>, next |-> "none"]}
      [] OTHER -> {}

\* What an update writes as progress and last_error.
RECURSIVE Written(_, _)
Written(written, kwargs) ==
    IF kwargs = <<>> THEN written
    ELSE Written(IF Head(kwargs)[1] \in {"progress", "last_error"}
                 THEN [written EXCEPT ![Head(kwargs)[1]] = Head(kwargs)[2]]
                 ELSE written,
                 Tail(kwargs))

\* start(): the lock is taken, is_running is false, the update begins.
ControllerStart ==
    /\ LockFree
    /\ StatusCall.pending["start"] = <<>>
    /\ StatusCall.task = "none"
    /\ ~GateClosed(status)
    /\ lock' = "http"
    /\ call' = [StatusCall EXCEPT !.pending["start"] = ResetUpdate,
                                  !.written = [progress |-> 0, last_error |-> None],
                                  !.after_error = status.last_error # None]
    /\ UNCHANGED <<env, app, useDb, status, pc, ret, run, bidRows, articleRows, fetch, sch>>

\* _update_status(**kwargs) of the task: the lock is taken, the update begins.
UpdateStatus ==
    /\ LockFree
    /\ StatusCall.pending["task"] = <<>>
    /\ \E update \in TaskUpdates(StatusCall.task) :
          call' = [StatusCall EXCEPT !.pending["task"] = update.kwargs,
                                    !.next = update.next,
                                    !.written = Written(@, update.kwargs)]
    /\ lock' = "task"
    /\ UNCHANGED <<env, app, useDb, status, pc, ret, run, bidRows, articleRows, fetch, sch>>

\* dict.update stores the next key; after the last one the with-block
\* ends, and after the update of start() the executor starts the task.
StoreKey(w) ==
    /\ StatusCall.pending[w] # <<>>
    /\ LET item == Head(StatusCall.pending[w])
           rest == Tail(StatusCall.pending[w])
       IN /\ status' = [status EXCEPT ![item[1]] = item[2]]
          /\ IF rest # <<>>
             THEN /\ call' = [StatusCall EXCEPT !.pending[w] = rest]
                  /\ UNCHANGED lock
             ELSE /\ call' = [StatusCall EXCEPT
                                 !.pending[w] = rest,
                                 !.committed = status',
                                 !.task = IF w = "start" THEN "begin" ELSE StatusCall.next]
                  /\ lock' = NoCaller
    /\ UNCHANGED <<env, app, useDb, pc, ret, run, bidRows, articleRows, fetch, sch>>

\* get_status(): with self.lock: return dict(self.status)
GetStatus ==
    /\ LockFree
    /\ call' = [StatusCall EXCEPT !.snapshot = [taken |-> TRUE, value |-> status,
                                                 committed |-> StatusCall.committed,
                                                 written |-> StatusCall.written,
                                                 after_error |-> StatusCall.after_error]]
    /\ UNCHANGED <<env, app, useDb, status, lock, pc, ret, run, bidRows, articleRows, fetch, sch>>

NextStatus ==
    \/ ControllerStart
    \/ UpdateStatus
    \/ \E w \in StatusWriters : StoreKey(w)
    \/ GetStatus

\* The controller, its task and a reader of the status.
InitStatus ==
    /\ env = [callers |-> {"http"}, store |-> FALSE, fetcher |-> FALSE, scheduler |-> FALSE,
              max_articles |-> CtlArticles, max_bids |-> CtlBids]
    /\ InitCommon
    /\ ~useDb

SpecStatus == InitStatus /\ [][NextStatus]_vars

\* ------------------------------- WeChatArticleScraper.scrape_articles_batch
\* The urls of one batch, and scraper.retry_count.
MaxBatch == 2
ScrapeTries == 2

BatchUrls == SeqsUpTo({"U1", "U2"}, MaxBatch)

\* What scrape_article(url) gives: None (an exception of the driver or of
\* parse_html, caught and logged), an article whose content_text is empty,
\* an article with a body.
ScrapeOutcomes == {"none", "empty", "body"}

ScrapedData(url, outcome) ==
    [url |-> url, content_text |-> IF outcome = "body" THEN <<"w">> ELSE <<>>]

\* An article counts whatever its body.
UsableAny(outcome) == outcome # "none"

\* if article and article.get("content_text")
Usable(outcome) == outcome # "none" /\ ScrapedData("U1", outcome).content_text # <<>>

\* scrape_articles_batch up to its loop: an empty list returns [];
\* self.init_driver() gives the driver or raises, and then the batch raises.
BatchBegin ==
    /\ call = NoCall
    /\ \E urls \in BatchUrls, driver \in BOOLEAN :
          call' = [op |-> "scrape_articles_batch", urls |-> urls,
                   driver |-> urls # <<>> /\ driver,
                   raised |-> urls # <<>> /\ ~driver,
                   index |-> 1, attempt |-> 1, attempted |-> <<>>,
                   results |-> <<>>, callbacks |-> <<>>, failures |-> 0,
                   returned |-> urls = <<>>]
    /\ UNCHANGED <<env, app, useDb, status, lock, pc, ret, run, bidRows, articleRows, fetch, sch>>

\* One attempt of _scrape_with_retry for the url of the loop: a usable
\* article is appended and the callback fires; else another attempt is
\* made, and after the last one the url counts as a failure.
BatchAttempt ==
    /\ call.op = "scrape_articles_batch"
    /\ ~call.raised /\ ~call.returned
    /\ call.index <= Len(call.urls)
    /\ call.attempt <= ScrapeTries
    /\ \E outcome \in ScrapeOutcomes :
          LET url == call.urls[call.index]
              tried == Append(call.attempted, call.index)
          IN IF Usable(outcome)
             THEN call' = [call EXCEPT
                             !.attempted = tried,
                             !.results = Append(@, ScrapedData(url, outcome)),
                             !.callbacks = Append(@, [index |-> call.index,
                                                      total |-> Len(call.urls),
                                                      data |-> ScrapedData(url, outcome)]),
                             !.index = @ + 1, !.attempt = 1]
             ELSE IF call.attempt < ScrapeTries
             THEN call' = [call EXCEPT !.attempted = tried, !.attempt = @ + 1]
             ELSE call' = [call EXCEPT !.attempted = tried, !.failures = @ + 1,
                                       !.index = @ + 1, !.attempt = 1]
    /\ UNCHANGED <<env, app, useDb, status, lock, pc, ret, run, bidRows, articleRows, fetch, sch>>

\* return results
BatchReturn ==
    /\ call.op = "scrape_articles_batch"
    /\ ~call.raised /\ ~call.returned
    /\ call.index > Len(call.urls)
    /\ call' = [call EXCEPT !.returned = TRUE]
    /\ UNCHANGED <<env, app, useDb, status, lock, pc, ret, run, bidRows, articleRows, fetch, sch>>

NextScrape == BatchBegin \/ BatchAttempt \/ BatchReturn

\* One batch of the scraper.
InitScrape ==
    /\ env = [callers |-> {}, store |-> FALSE, fetcher |-> FALSE, scheduler |-> FALSE,
              max_articles |-> CtlArticles, max_bids |-> CtlBids]
    /\ InitCommon

SpecScrape == InitScrape /\ [][NextScrape]_vars

\* ------------------------------------- DataManager.reset_data during a run
\* The calls a run makes on the store, each in two steps: what it reads
\* (load_json, or session.get / query), then what it writes (save_json of
\* the whole list, or the commit of its own rows).  reset_data is called by
\* the handler of POST /api/admin/reset in another thread; DataManager has
\* no lock.  call holds the position of the run, what its call under way
\* read, the ids and urls stored when the reset began, and the ids and urls
\* of the calls that began after the reset.
RaceSteps == <<"save_bids", "save_article", "update_bid_status", "done">>

\* The store an earlier run left: one article row and its bid.
RaceSeed ==
    /\ call = NoCall
    /\ \E st \in {"new", "notified"}, text \in Texts \ {<<>>} :
          /\ bidRows' = <<Bid(GenerateId("p1"), st)>>
          /\ articleRows' = << <<"a">> >>
          /\ call' = [op |-> "reset_data", step |-> 1, phase |-> "read", loaded |-> <<>>,
                      bids |-> ExtractFromText(text), new |-> <<>>, url |-> <<"b">>,
                      reset |-> "none", old_ids |-> {}, old_urls |-> {},
                      again_ids |-> {}, again_urls |-> {}]
    /\ UNCHANGED <<env, app, useDb, status, lock, pc, ret, run, fetch, sch>>

\* The first step of save_bids, save_article and update_bid_status: the
\* stored list is read.  A run without new bids sends no notification.
RaceRead ==
    /\ call.op = "reset_data"
    /\ call.phase = "read"
    /\ RaceSteps[call.step] # "done"
    /\ LET name == RaceSteps[call.step]
           after == call.reset = "done"
       IN IF name = "update_bid_status" /\ call.new = <<>>
          THEN call' = [call EXCEPT !.step = @ + 1]
          ELSE call' = [call EXCEPT
                  !.phase = "write",
                  !.loaded = IF name = "save_article" THEN articleRows ELSE bidRows,
                  !.again_ids = IF after /\ name # "save_article"
                                THEN @ \cup {call.bids[k].id : k \in 1..Len(call.bids)}
                                ELSE @,
                  !.again_urls = IF after /\ name = "save_article" THEN @ \cup {call.url}
                                 ELSE @]
    /\ UNCHANGED <<env, app, useDb, status, lock, pc, ret, run, bidRows, articleRows, fetch, sch>>

\* The rows a commit adds to the table.
Inserted(stored, new_records) == stored \o new_records

\* The second step: the file backend writes the list it read, changed; the
\* database backend commits the rows it added or changed.
RaceWrite ==
    /\ call.op = "reset_data"
    /\ call.phase = "write"
    /\ LET name == RaceSteps[call.step] IN
       /\ name = "save_bids" =>
             /\ UNCHANGED articleRows
             /\ IF useDb
                THEN LET new_records == SaveBidsDbLoop(call.loaded, <<>>, call.bids) IN
                     IF CommitConflict(new_records)
                     THEN /\ UNCHANGED bidRows
                          /\ call' = [call EXCEPT !.phase = "read", !.step = @ + 1]
                     ELSE /\ bidRows' = Inserted(bidRows, new_records)
                          /\ call' = [call EXCEPT !.phase = "read", !.step = @ + 1,
                                                  !.new = new_records]
                ELSE LET saved == SaveBidsFile(call.loaded, call.bids) IN
                     /\ bidRows' = IF saved.new # <<>> THEN saved.stored ELSE bidRows
                     /\ call' = [call EXCEPT !.phase = "read", !.step = @ + 1,
                                             !.new = saved.new]
       /\ name = "save_article" =>
             /\ UNCHANGED bidRows
             /\ call' = [call EXCEPT !.phase = "read", !.step = @ + 1]
             /\ LET saved == SaveArticle(call.loaded, call.url) IN
                articleRows' = IF ~saved.saved THEN articleRows
                               ELSE IF useDb THEN Append(articleRows, Strip(call.url))
                               ELSE saved.rows
       /\ name = "update_bid_status" =>
             /\ UNCHANGED articleRows
             /\ call' = [call EXCEPT !.phase = "read", !.step = @ + 1]
             /\ LET updated == UpdateBidStatus(call.loaded, call.new[1].id, "notified") IN
                bidRows' = IF ~updated.updated THEN bidRows
                           ELSE IF useDb
                           THEN UpdateBidStatus(bidRows, call.new[1].id, "notified").stored
                           ELSE updated.stored
    /\ UNCHANGED <<env, app, useDb, status, lock, pc, ret, run, fetch, sch>>

\* reset_data: the database backend deletes both tables in one commit; the
\* file backend writes [] to the articles file, then to the bids file.
ResetData ==
    /\ call.op = "reset_data"
    /\ call.reset # "done"
    /\ IF call.reset = "none"
       THEN /\ articleRows' = <<>>
            /\ bidRows' = IF useDb THEN <<>> ELSE bidRows
            /\ call' = [call EXCEPT !.reset = IF useDb THEN "done" ELSE "articles",
                                    !.old_ids = StoredIds(bidRows),
                                    !.old_urls = Range(articleRows)]
       ELSE /\ bidRows' = <<>>
            /\ UNCHANGED articleRows
            /\ call' = [call EXCEPT !.reset = "done"]
    /\ UNCHANGED <<env, app, useDb, status, lock, pc, ret, run, fetch, sch>>

NextReset == RaceSeed \/ RaceRead \/ RaceWrite \/ ResetData

\* The store, one run that writes to it and one reset.
InitReset ==
    /\ env = [callers |-> {}, store |-> TRUE, fetcher |-> FALSE, scheduler |-> FALSE,
              max_articles |-> CtlArticles, max_bids |-> CtlBids]
    /\ InitCommon

SpecReset == InitReset /\ [][NextReset]_vars

\* ============================================================== claims
InFlight == {c \in Callers : run[c].pc # "none"}
Accepted == {c \in Callers : pc[c] \in {"update", "launch"}}

\* C1: at most one crawl task is in flight at any time, under any
\* interleaving of start() calls: a call passes the gate only while it holds
\* the lock and is_running is false, at most one accepted call or launched
\* task exists, and is_running is true from the accepting update until the
\* task's finally block has run.
C1_SingleFlight ==
    /\ Cardinality(InFlight) + Cardinality(Accepted) <= 1
    /\ \A c \in Callers : pc[c] = "update" => (lock = c /\ ~status.is_running)
    /\ \A c \in Callers : pc[c] = "launch" => status.is_running
    /\ \A c \in InFlight : status.is_running

\* Two callers contend: a task is in flight while the other caller is inside start().
C1_Witness ==
    /\ run["http"].pc \in {"fetch", "scrape", "finally"}
    /\ pc["sched"] = "check"

\* C2: a start() call made while is_running is true returns false and
\* changes nothing (no task, no status field, no stored row, no other
\* caller); a call that checks the gate while a task is in flight returns
\* false, and is_running is true as long as the task is in flight.
C2_RefusedStartIsNoOp ==
    /\ [][\A c \in Callers :
            (pc[c] = "check" /\ pc'[c] # "check" /\ status.is_running)
            => /\ ret'[c] = "false"
               /\ pc'[c] = "idle"
               /\ status' = status
               /\ run' = run
               /\ bidRows' = bidRows
               /\ articleRows' = articleRows
               /\ \A d \in Callers \ {c} : pc'[d] = pc[d] /\ ret'[d] = ret[d]]_vars
    /\ [][\A c \in Callers :
            (pc[c] = "check" /\ pc'[c] # "check" /\ InFlight # {})
            => ret'[c] = "false"]_vars
    /\ [](InFlight # {} => status.is_running)

\* start() twice in succession: the first returned true, its task is in
\* flight, the second returned false.
C2_Witness ==
    /\ ret["http"] = "true"
    /\ run["http"].pc # "none"
    /\ ret["sched"] = "false"
    /\ pc["sched"] = "idle"
    /\ status.is_running

\* C3: when runner.run raised, the task ends (its finally block has run)
\* with last_error = the exception text, a failure message, and
\* is_running = false.
C3_RaiseRecorded ==
    [][\A t \in Callers :
          (run[t].pc = "finally" /\ run[t].exc # None /\ run'[t].pc = "none")
          => /\ status'.last_error = run[t].exc
             /\ status'.message = FailMsg(run[t].exc)
             /\ ~status'.is_running]_vars

\* A task that raised has ended.
C3_Witness ==
    /\ InFlight = {}
    /\ ~status.is_running
    /\ status.last_error = "boom"
    /\ status.message = FailMsg("boom")

\* The part of C4 about the run: a launched task always ends and clears is_running.
RunAlwaysEnds == \A c \in Callers : (run[c].pc # "none") ~> (~status.is_running)

\* C4: every accepted start() is eventually followed by is_running = false,
\* whatever the run's outcome, and a start() call that then finds the gate
\* open returns true.
C4_RestartAfterRun ==
    /\ RunAlwaysEnds
    /\ [][\A c \in Callers :
            (pc[c] \in {"update", "launch"} /\ pc'[c] \notin {"update", "launch"})
            => ret'[c] = "true"]_vars

\* The tasks that have run the filter step and not ended yet.
Filtered == { t \in Callers : run[t].pc \in {"scrapeBegin", "scrape", "extract", "article", "send"} }

\* C5: no URL that has an article row when the filter step runs is handed to
\* the retriever or the extractor in that run, so a URL stored by an earlier
\* run is never retrieved again: every URL kept by the filter, every URL
\* retrieved and every article extracted is, raw and trimmed, absent from
\* the rows of the filter step, and absent from the rows at the very step
\* that retrieves or extracts it.
C5_SeenUrlNeverRetrieved ==
    /\ [](\A t \in Filtered :
            /\ \A i \in 1..Len(run[t].new_articles) :
                  /\ run[t].new_articles[i] \notin run[t].seen_rows
                  /\ Strip(run[t].new_articles[i]) \notin run[t].seen_rows
            /\ \A j \in 1..Len(run[t].articles_data) :
                  Strip(run[t].articles_data[j].url) \notin run[t].seen_rows)
    /\ [][\A t \in Callers :
            /\ (run[t].pc = "scrape" /\ run'[t].pc = "scrape" /\ run'[t].idx = run[t].idx + 1)
               => Strip(run[t].new_articles[run[t].idx]) \notin Range(articleRows)
            /\ (run[t].pc = "extract" /\ run'[t].pc = "article")
               => Strip(run[t].articles_data[run[t].idx].url) \notin Range(articleRows)]_vars

\* A later run lists a URL stored by an earlier run next to a new one, and
\* has retrieved the new one only.
C5_Witness ==
    /\ run["http"].pc = "extract"
    /\ <<"a">> \in run["http"].seen_rows
    /\ run["http"].article_list = << <<"a">>, <<"b">> >>
    /\ Len(run["http"].articles_data) = 1
    /\ run["http"].articles_data[1].url = <<"b">>

\* C6: the article list is de-duplicated by trimmed URL, first occurrence
\* kept: the kept articles have pairwise different trimmed URLs and each is
\* the first listed article with its trimmed URL, so are the retrieved
\* ones; no URL ever has two article rows, and each article that went
\* through the persist step has exactly one row.
C6_DedupByTrimmedUrl ==
    /\ \A u \in RawUrls : CountIn(articleRows, u) <= 1
    /\ \A t \in Filtered :
          LET kept == run[t].new_articles
              listed == run[t].article_list
              got == run[t].articles_data
          IN /\ \A i, j \in 1..Len(kept) : i # j => Strip(kept[i]) # Strip(kept[j])
             /\ \A i \in 1..Len(kept) :
                   /\ Strip(kept[i]) # <<>>
                   /\ \E k \in 1..Len(listed) :
                         /\ listed[k] = kept[i]
                         /\ \A m \in 1..(k - 1) : Strip(listed[m]) # Strip(kept[i])
             /\ \A i, j \in 1..Len(got) : i # j => Strip(got[i].url) # Strip(got[j].url)
             /\ run[t].pc \in {"extract", "article"} =>
                   \A j \in 1..(run[t].idx - 1) :
                      CountIn(articleRows, Strip(got[j].url)) = 1

\* Two listed articles share the trimmed URL "a"; one was kept and
\* retrieved, and after the persist step there is exactly one row for it.
C6_Witness ==
    /\ run["http"].article_list = << <<"a">>, <<"a", " ">> >>
    /\ run["http"].pc = "extract"
    /\ run["http"].idx = 2
    /\ run["http"].new_articles = << <<"a">> >>
    /\ articleRows = << <<"a">> >>

\* The save_bids part of C7: the second call with the same record set
\* returns nothing new and leaves the store as it was, without two rows
\* of one id.
SaveBidsIdempotent ==
    /\ \A i, j \in 1..Len(bidRows) : i # j => bidRows[i].id # bidRows[j].id
    /\ call.op = "save_bids_again" => (call.new = <<>> /\ bidRows = call.before)

\* The save_article part of C7: the second call for the same url returns
\* false and adds no row.
SaveArticleIdempotent ==
    call.op = "save_article_again" => (~call.saved /\ articleRows = call.before)

\* C7: persistence is idempotent in both backends: save_bids called again
\* with the same record set returns an empty list and stores no duplicate,
\* save_article called again returns false and adds no row, and
\* is_article_crawled(url) is true right after a successful save_article(url).
C7_PersistenceIdempotent ==
    /\ SaveBidsIdempotent
    /\ SaveArticleIdempotent
    /\ (call.op = "is_article_crawled" /\ call.saved) => call.found

\* The rows save_bids appended since the run of t began, and the ids of a
\* sequence of bids.
NewlySaved(t) == SubSeq(bidRows, run[t].bids_before + 1, Len(bidRows))
IdsOf(bids) == [i \in 1..Len(bids) |-> bids[i].id]

\* C8 as stated: in every run the notifier is invoked at most once, it is
\* invoked if and only if save_bids returned a newly saved bid in that run,
\* and it is handed exactly the bids newly saved in that run.
C8_NotifiedIffNewBids ==
    \A t \in Callers :
       run[t].pc = "finally" =>
          /\ run[t].sent <= 1
          /\ run[t].sent = 1 <=> NewlySaved(t) # <<>>
          /\ run[t].sent = 1 => IdsOf(run[t].handed) = IdsOf(NewlySaved(t))

\* C8: in every run the notifier is invoked at most once and only if
\* save_bids returned a newly saved bid in that run, and it is handed exactly
\* the bids newly saved in that run; a run that does not raise invokes it
\* whenever save_bids returned a newly saved bid.
C8_NotifiedOnlyIfNewBids ==
    \A t \in Callers :
       /\ run[t].sent <= 1
       /\ run[t].sent = 1 =>
             /\ NewlySaved(t) # <<>>
             /\ IdsOf(run[t].handed) = IdsOf(NewlySaved(t))
       /\ (run[t].pc = "finally" /\ run[t].exc = None /\ NewlySaved(t) # <<>>)
             => run[t].sent = 1

\* A run that found a stored bid and a new one has notified the new one.
C8_Witness ==
    /\ run["http"].pc = "finally"
    /\ run["http"].exc = None
    /\ run["http"].sent = 1
    /\ run["http"].bids_before = 1
    /\ Len(run["http"].handed) = 1
    /\ Len(run["http"].articles_data) = 2

\* C9: a failed send removes and modifies no stored bid: the send step
\* leaves the stored bids as they were, every bid saved earlier in the run
\* and every bid handed to the notifier is stored with status new.
C9_FailedSendKeepsBids ==
    /\ [][\A t \in Callers :
            (run[t].pc = "send" /\ run'[t].send_ok = "failed") => bidRows' = bidRows]_vars
    /\ [](\A t \in Callers :
            run[t].send_ok = "failed" =>
               /\ \A k \in (run[t].bids_before + 1)..Len(bidRows) : bidRows[k].status = "new"
               /\ \A i \in 1..Len(run[t].handed) :
                     \E k \in 1..Len(bidRows) :
                        /\ bidRows[k].id = run[t].handed[i].id
                        /\ bidRows[k].status = "new")

\* The send failed in a run that saved two bids.
C9_Witness ==
    /\ run["http"].pc = "finally"
    /\ run["http"].send_ok = "failed"
    /\ Len(run["http"].handed) = 2
    /\ Len(bidRows) >= 2

NotifyFailureReported(st) == st.message # "done, new bids" \/ st.last_error # None

\* C11: when send_bid_notification returned false, the final status of the
\* run reports the notification failure in message or last_error, and the
\* notifier was invoked once only.
C11_NotifyFailureReported ==
    \A t \in Callers :
       (run[t].pc = "finally" /\ run[t].send_ok = "failed") =>
          /\ NotifyFailureReported(status)
          /\ run[t].sent = 1

\* C12: the pipeline never deletes a stored bid and changes one only from
\* status new to notified, in the step of a successful notification; a save
\* of bids whose ids are stored leaves their records as they are.
C12_StoredBidsImmutable ==
    [][/\ Len(bidRows') >= Len(bidRows)
       /\ \A k \in 1..Len(bidRows) :
             \/ bidRows'[k] = bidRows[k]
             \/ /\ bidRows[k].status = "new"
                /\ bidRows'[k] = [bidRows[k] EXCEPT !.status = "notified"]
                /\ \E t \in Callers : run[t].pc = "send" /\ run'[t].send_ok = "ok"]_vars

\* A later run extracted again the bid an earlier run stored and notified,
\* next to a new one, and the stored record is still notified.
C12_Witness ==
    /\ run["http"].pc = "article"
    /\ run["http"].bids_before = 1
    /\ Len(bidRows) = 2
    /\ bidRows[1].status = "notified"
    /\ Len(ExtractFromText(run["http"].articles_data[run["http"].idx].content_text)) = 2

\* A step that is one page request of the current fetcher.
Requested == fetch.pc = "request" /\ fetch'.nreq = fetch.nreq + 1

C14_AuthFailureAbandons ==
    [][(Requested /\ fetch'.last.resp = "auth") => fetch'.pc # "request"]_vars

\* C15: one offset gets at most retry_count requests, whatever made them
\* fail; between two attempts lies the retry delay; after the last failed
\* attempt pagination stops and fetch_article_list returns the articles of
\* the earlier pages.
C15_BoundedRetries ==
    /\ [](fetch.tries <= RetryCount)
    /\ [][/\ (Requested /\ fetch'.last.resp \in Failures) =>
                /\ fetch'.begin = fetch.begin
                /\ fetch'.articles = fetch.articles
                /\ fetch.tries + 1 < RetryCount =>
                      (fetch'.pc = "request" /\ fetch'.last.delay = RetryDelay)
                /\ fetch.tries + 1 >= RetryCount => fetch'.pc = "return"
          /\ (fetch.pc = "return" /\ fetch'.pc # "return") =>
                /\ Len(fetch'.obtained) = Len(fetch.obtained) + 1
                /\ LET got == fetch'.obtained[Len(fetch'.obtained)] IN
                   /\ Len(got) = Len(fetch.articles)
                   /\ \A i \in 1..Len(got) : /\ got[i].title = fetch.articles[i].title
                                             /\ got[i].url = fetch.articles[i].url]_vars

\* The first page gave an article, every attempt at the second offset
\* failed, and the article of the first page was returned.
C15_Witness ==
    /\ fetch.pc = "done"
    /\ fetch.last.resp = "neterr"
    /\ fetch.last.begin = PageSize
    /\ Len(fetch.obtained) = 1
    /\ Len(fetch.obtained[1]) = 1

\* C16: no page is requested after a page with fewer than page_size items,
\* after the cap was reached, or after a page without items.
C16_PaginationStops ==
    [][(Requested /\ fetch'.last.resp = "ok"
          /\ (fetch'.last.n < PageSize \/ Len(fetch'.articles) >= FetchLimit))
        => fetch'.pc # "request"]_vars

RECURSIVE Flatten(_)
Flatten(lists) == IF lists = <<>> THEN <<>> ELSE Head(lists) \o Flatten(Tail(lists))

\* C17: one account whose fetch fails does not end fetch_all_articles: every
\* account is fetched, and the result is the lists the accounts gave, put
\* together in account order, each article tagged with its account.
C17_FailingSourceSkipped ==
    fetch.pc = "done" =>
       /\ Len(fetch.obtained) = Len(fetch.accounts)
       /\ fetch.all_articles = Flatten(fetch.obtained)
       /\ \A i \in 1..Len(fetch.obtained) : \A j \in 1..Len(fetch.obtained[i]) :
             fetch.obtained[i][j].source_account_id = i

\* The first account's fetch raised and the second account's articles came back.
C17_Witness ==
    /\ fetch.pc = "done"
    /\ Len(fetch.accounts) = 2
    /\ fetch.raised = {1}
    /\ Len(fetch.all_articles) = 2
    /\ fetch.all_articles[1].source_account_id = 2

\* The keyword filter as the two cases AND and OR give it, and the same
\* with a list without keyword letting every title through.
PassesAndOr(keyword_logic, keywords, title) ==
    IF keyword_logic = "AND"
    THEN \A i \in 1..Len(keywords) : IsSubstring(keywords[i], title)
    ELSE \E i \in 1..Len(keywords) : IsSubstring(keywords[i], title)

PassesOrNoKeyword(keyword_logic, keywords, title) ==
    keywords = <<>> \/ PassesAndOr(keyword_logic, keywords, title)

\* The source's keywords: the configured ones, stripped, without the blank
\* ones; the defaults when none is configured.
KeywordsOf(account) == NormalizeKeywords(account.filter_keywords)

FirstN(s, n) == SubSeq(s, 1, IF Len(s) < n THEN Len(s) ELSE n)

\* The articles of the items of a page that pass a filter and have a link.
RECURSIVE PassingAndOr(_, _), PassingOrNoKeyword(_, _)
PassingAndOr(items, account) ==
    IF items = <<>> THEN <<>>
    ELSE (IF PassesAndOr(account.filter_keyword_logic, KeywordsOf(account), Head(items).title)
             /\ Strip(Head(items).link) # <<>>
          THEN << [title |-> Strip(Head(items).title), url |-> Strip(Head(items).link)] >>
          ELSE <<>>) \o PassingAndOr(Tail(items), account)
PassingOrNoKeyword(items, account) ==
    IF items = <<>> THEN <<>>
    ELSE (IF PassesOrNoKeyword(account.filter_keyword_logic, KeywordsOf(account), Head(items).title)
             /\ Strip(Head(items).link) # <<>>
          THEN << [title |-> Strip(Head(items).title), url |-> Strip(Head(items).link)] >>
          ELSE <<>>) \o PassingOrNoKeyword(Tail(items), account)

\* C18 as stated: a source's result holds only articles whose title passes
\* its keyword filter (AND: every keyword is in the title, OR: at least one
\* is) and at most the cap; a page adds its passing items, in order, up to
\* the cap, so the other items do not count toward the cap.
C18_KeywordFilterAndOr ==
    /\ [](\A i \in 1..Len(fetch.obtained) :
            /\ Len(fetch.obtained[i]) <= FetchLimit
            /\ \A j \in 1..Len(fetch.obtained[i]) :
                  PassesAndOr(fetch.accounts[i].filter_keyword_logic,
                              KeywordsOf(fetch.accounts[i]), fetch.obtained[i][j].title))
    /\ [][(Requested /\ fetch'.last.resp = "ok") =>
             fetch'.articles =
                FirstN(fetch.articles \o PassingAndOr(fetch'.last.items, Account), FetchLimit)]_vars

\* C18: the same, a source whose list holds no keyword (only blank ones
\* were configured) letting every title through.
C18_KeywordFilter ==
    /\ [](\A i \in 1..Len(fetch.obtained) :
            /\ Len(fetch.obtained[i]) <= FetchLimit
            /\ \A j \in 1..Len(fetch.obtained[i]) :
                  PassesOrNoKeyword(fetch.accounts[i].filter_keyword_logic,
                                    KeywordsOf(fetch.accounts[i]), fetch.obtained[i][j].title))
    /\ [][(Requested /\ fetch'.last.resp = "ok") =>
             fetch'.articles =
                FirstN(fetch.articles \o PassingOrNoKeyword(fetch'.last.items, Account), FetchLimit)]_vars

\* An AND source with the keywords k and m got a page of a title with k
\* only and a title with both, then a page of two titles with both: the
\* title with k only was dropped and the cap was reached with the other two.
C18_Witness ==
    /\ fetch.pc = "return"
    /\ Account.filter_keyword_logic = "AND"
    /\ KeywordsOf(Account) = << <<"k">>, <<"m">> >>
    /\ fetch.nreq = 2
    /\ Len(fetch.articles) = FetchLimit
    /\ fetch.succeeded = {0, PageSize}
    /\ \A i \in 1..Len(fetch.articles) : fetch.articles[i].title = <<"k", "m">>

\* What the loop thread does once controller.start() gave false.
SkippedTickGoesOn ==
    [][(sch.pc = "calling" /\ sch'.pc # "calling" /\ ret["sched"] = "false")
          => sch'.pc = "loop" /\ sch'.thread = "alive"]_vars

\* C19: every sleep of the scheduler loop that ends by its timeout is
\* followed by exactly one controller.start() call; a call that returns
\* false changes neither the status nor the tasks (no error, no run queued),
\* and the loop thread goes back to the top of its loop; a call of the
\* scheduler passes the gate only when no run is in flight.
C19_TickCallsStartOnce ==
    /\ [](sch.pc # "none" =>
            sch.calls = IF sch.pc = "trigger" THEN sch.wakes - 1 ELSE sch.wakes)
    /\ [][(sch.pc = "calling" /\ pc["sched"] = "check" /\ ret'["sched"] = "false")
             => status' = status /\ run' = run]_vars
    /\ SkippedTickGoesOn
    /\ [](pc["sched"] \in {"update", "launch"} => InFlight = {})

\* The second tick was skipped while the run of the first is in flight, and
\* the loop is asleep again.
C19_Witness ==
    /\ sch.last_started = "false"
    /\ sch.pc = "wait"
    /\ sch.calls = 2
    /\ run["sched"].pc # "none"

\* A sleep that ends because stop() set the event triggers nothing.
StopWakeTriggersNothing ==
    [][(sch.pc = "wait" /\ sch.stop_event) => sch'.pc # "trigger"]_vars

\* C20: the sleep that stop() ends is followed by no controller.start()
\* call, and after stop() has returned the loop of that scheduler makes no
\* controller.start() call.
C20_NoTriggerAfterStop ==
    /\ StopWakeTriggersNothing
    /\ [](~sch.late)

\* now with its seconds cleared, k minutes later.
RECURSIVE MinutesLater(_, _)
MinutesLater(dt, k) == IF k = 0 THEN [dt EXCEPT !.second = 0] ELSE AddMinute(MinutesLater(dt, k - 1))

\* The expression the claim speaks of: the explicit one, else the one
\* derived from a daily time "H:M".
HasExpression(config) ==
    \/ config.cron.text
    \/ /\ config.daily_time.text
       /\ Len(Split(config.daily_time.chars, ":")) = 2
       /\ \A i \in 1..2 : ParseInt(Split(config.daily_time.chars, ":")[i]).ok

\* k is the first minute after now that the parsed expression matches.
FirstMatch(cron, now, k) ==
    /\ Match(cron, MinutesLater(now, k))
    /\ \A j \in 1..(k - 1) : ~Match(cron, MinutesLater(now, j))

\* C21: a positive interval gives interval * 60 seconds whatever cron and
\* daily_time are; else an expression (explicit or derived from daily_time)
\* that parses and has a match gives the seconds to its first match after
\* now; else, without expression, the wait is the seconds to the next 07:00.
C21_WaitPriority ==
    call.op = "next_interval_seconds" =>
       LET config == call.config
           wait == call.result.wait
       IN /\ config.interval_minutes > 0 => wait = config.interval_minutes * 60
          /\ (config.interval_minutes <= 0 /\ HasExpression(config) /\ call.cron.ok) =>
                \A k \in 1..SearchCap :
                    FirstMatch(call.cron, call.now, k) => wait = k * 60 - call.now.second
          /\ (config.interval_minutes <= 0 /\ ~HasExpression(config)) =>
                /\ wait \in 1..86400
                /\ (SecondOfDay(call.now) + wait) % 86400 = 7 * 3600

\* No positive interval, no cron string, daily_time "7:0" half a minute
\* before seven: the wait comes from the derived expression.
C21_Witness ==
    /\ call.op = "next_interval_seconds"
    /\ call.config.interval_minutes = 0
    /\ ~call.config.cron.text
    /\ call.config.daily_time.chars = <<"7", ":", "0">>
    /\ call.now.hour = 6 /\ call.now.minute = 59
    /\ call.result.wait = 30

\* next_after gives the first minute after now that _match accepts.
NextAfterIsFirstMatch ==
    (call.op = "next_interval_seconds" /\ call.cron.ok) =>
       /\ call.next.found => FirstMatch(call.cron, call.now, call.next.k)
       /\ \A k \in 1..SearchCap : FirstMatch(call.cron, call.now, k) =>
             call.next.found /\ call.next.k = k /\ call.next.at = MinutesLater(call.now, k)

\* "*/5 * * * *": the result is later than now and at most five minutes later.
EveryFiveMinutes ==
    (call.op = "next_interval_seconds" /\ call.cron.ok
       /\ call.cron_expr.parts = <<<<"*", "/", "5">>, Star, Star, Star, Star>>) =>
       /\ call.next.found
       /\ call.next.k * 60 - call.now.second > 0
       /\ call.next.k * 60 - call.now.second <= 300

\* dt is a minute the expression names, its day-of-week field read as cron
\* numbers days (0 Sunday ... 6 Saturday).
MatchesExpression(cron, dt) ==
    /\ In(dt.minute, cron.minutes) /\ In(dt.hour, cron.hours)
    /\ In(dt.day, cron.days) /\ In(dt.month, cron.months)
    /\ In((dt.weekday + 1) % 7, cron.weekdays)

\* C22: next_after(now) is the first whole minute after now whose minute,
\* hour, day of month, month and day of week match the expression.
C22_NextAfterFirstMatch ==
    (call.op = "next_interval_seconds" /\ call.cron.ok) =>
       \A k \in 1..SearchCap :
           (/\ MatchesExpression(call.cron, MinutesLater(call.now, k))
            /\ \A j \in 1..(k - 1) : ~MatchesExpression(call.cron, MinutesLater(call.now, j)))
           => call.next.found /\ call.next.k = k

\* The field with 0 written for 7.
SevenAsZero(field) == [i \in 1..Len(field) |-> IF field[i] = "7" THEN "0" ELSE field[i]]

\* C23: a day-of-week field matches the same weekdays as the field with 0
\* written for every 7.
C23_SevenAliasesZero ==
    call.op = "parse_field" =>
       \A weekday \in 0..6 :
           In(weekday, call.parsed) <=> In(weekday, ParseField(SevenAsZero(call.field), 0, 6, TRUE))

\* C25: a start() call spawns no loop thread when the scheduler is disabled
\* or its thread is alive, else it spawns one thread, which stands at the
\* top of its loop when start() returns (no wake and no trigger awaited);
\* at most one loop thread of the scheduler is alive.
C25_StartSpawnsAtMostOne ==
    /\ [][sch'.starts = sch.starts + 1 =>
            /\ (~sch.enabled \/ sch.thread = "alive") => sch' = [sch EXCEPT !.starts = @ + 1]
            /\ (sch.enabled /\ sch.thread # "alive") =>
                  /\ sch'.live = sch.live + 1
                  /\ sch'.thread = "alive" /\ sch'.pc = "loop"
                  /\ sch'.wakes = sch.wakes /\ sch'.calls = sch.calls]_vars
    /\ [][sch'.live > sch.live => sch'.starts = sch.starts + 1]_vars
    /\ [](sch.live <= 1)
    /\ [](sch.live = 1 <=> sch.thread = "alive")

\* start() was called twice while the thread of the first call is alive.
C25_Witness ==
    /\ sch.starts = 2
    /\ sch.live = 1
    /\ sch.thread = "alive"
    /\ ~sch.stop_event

\* Every settings request was served.
ReloadsOver ==
    /\ Len(app.requests) >= 1
    /\ \A r \in 1..Len(app.requests) : app.requests[r].pc = "done"

\* The loop of scheduler i can trigger a crawl.
CanTrigger(i) ==
    /\ app.schedulers[i].thread = "alive"
    /\ app.schedulers[i].pc = "woke" \/ ~app.schedulers[i].stop_event

\* C24: once the settings requests are served, however they interleaved,
\* the registered scheduler is one a reload built from the new
\* configuration, it is the only scheduler whose loop can trigger a crawl
\* (every other one is stopped), and no scheduler's configuration was
\* changed after it was built.
C24_ReloadLeavesOneScheduler ==
    /\ [](ReloadsOver =>
            /\ app.registered > 1
            /\ app.schedulers[app.registered].config = app.file
            /\ app.schedulers[app.registered].config.enabled => CanTrigger(app.registered)
            /\ \A i \in 1..Len(app.schedulers) : i # app.registered => ~CanTrigger(i))
    /\ [][\A i \in 1..Len(app.schedulers) :
             app.schedulers'[i].config = app.schedulers[i].config]_vars

\* The value a block gives a label: the text after the first occurrence of
\* the label and its separators, up to the next other label or the end of
\* the block, trimmed; empty when the block has no such label.
LabelledValue(block, label) ==
    IF label \notin Range(block) THEN <<>>
    ELSE LET i == Least({p \in 1..Len(block) : block[p] = label})
             from == i + 1 + SepRun(block, i + 1)
             to == Least({t \in (from - 1)..Len(block) :
                            t = Len(block) \/ block[t + 1] \in DefaultLabels \ {label}})
         IN Strip(SubSeq(block, from, to))

RequiredLabels == {"NAME", "BUDGET", "PURCHASER", "DOCTIME"}

\* A required field of the block is missing or empty.
Incomplete(block) == \E label \in RequiredLabels : LabelledValue(block, label) = <<>>

\* A block that starts with its index and the project-name label, holds the
\* four required fields, a budget with the currency character and a project
\* name of five characters or more.
WellFormedBlock(block) ==
    /\ MarkerAt(block, 1)
    /\ ~Incomplete(block)
    /\ "yuan" \in Range(LabelledValue(block, "BUDGET"))
    /\ TextLen(LabelledValue(block, "NAME")) >= 5

\* The tender a block announces.
TenderOf(block) == <<LabelledValue(block, "NAME"), LabelledValue(block, "PURCHASER")>>

\* The default parser was applied to the text of the call.
DefaultParserCalled ==
    call.op = "extract_from_text" /\ call.result.parser = "DefaultParser"

\* The text of the call is made of well-formed blocks of different tenders.
WellFormedText ==
    LET blocks == SplitProjects(call.text) IN
    /\ Len(blocks) >= 1
    /\ \A k \in 1..Len(blocks) : WellFormedBlock(blocks[k])
    /\ \A j, k \in 1..Len(blocks) : j < k => TenderOf(blocks[j]) # TenderOf(blocks[k])

\* One record for each well-formed block.
OneRecordPerBlock ==
    DefaultParserCalled /\ WellFormedText =>
        Len(call.result.bids) = Len(SplitProjects(call.text))

\* C26: for a text of N well-formed project blocks of N different tenders
\* the default parser returns N records whose ids differ pairwise.
C26_WellFormedBlocksAllExtracted ==
    DefaultParserCalled /\ WellFormedText =>
        /\ Len(call.result.bids) = Len(SplitProjects(call.text))
        /\ \A j, k \in 1..Len(call.result.bids) :
              j < k => call.result.bids[j].id # call.result.bids[k].id

\* What the blocks give when each complete one is extracted alone.
RECURSIVE EachAlone(_, _, _)
EachAlone(blocks, k, meta) ==
    IF k > Len(blocks) THEN <<>>
    ELSE (IF Incomplete(blocks[k]) THEN <<>>
          ELSE DefaultParserExtract(blocks[k], meta, 0).bids)
         \o EachAlone(blocks, k + 1, meta)

\* A required label is not in the block.
LabelMissing(block) == \E label \in RequiredLabels : label \notin Range(block)

\* A block without one of the required labels gives no record.
MissingLabelGivesNothing ==
    DefaultParserCalled =>
        \A k \in 1..Len(SplitProjects(call.text)) :
            LabelMissing(SplitProjects(call.text)[k]) =>
                DefaultParserExtract(SplitProjects(call.text)[k], call.meta, 0).bids = <<>>

\* C27: a block in which a required field is missing or empty gives no
\* record and no error, and the records of the text are those of its other
\* blocks, each as it is extracted alone.
C27_IncompleteBlockGivesNothing ==
    DefaultParserCalled =>
        /\ ~call.result.raised
        /\ call.result.bids = EachAlone(SplitProjects(call.text), 1, call.meta)

\* The records seen so far: the stored ones and those of the last extraction.
SeenBids ==
    Range(bidRows) \cup (IF call.op \in {"extract_from_text", "run_extract"}
                         THEN Range(call.result.bids) ELSE {})

SameTender(a, b) == a.project_name = b.project_name /\ a.purchaser = b.purchaser

\* C28: two records of the same (project name, purchaser), whatever the
\* article, the run and the time they come from, have the same id, and the
\* store holds at most one record of a tender.
C28_IdFunctionOfTender ==
    /\ \A a, b \in SeenBids : SameTender(a, b) => a.id = b.id
    /\ \A i, j \in 1..Len(bidRows) : i < j => ~SameTender(bidRows[i], bidRows[j])

\* The second run extracts, from another article at another time, a
\* tender that the first run stored.
C28_Witness ==
    /\ call.op = "run_extract"
    /\ call.runs = 2
    /\ \E i \in 1..Len(bidRows), k \in 1..Len(call.result.bids) :
          /\ SameTender(bidRows[i], call.result.bids[k])
          /\ bidRows[i].source_url # call.result.bids[k].source_url
          /\ bidRows[i].extracted_time # call.result.bids[k].extracted_time

\* C29: in a run, the parser applied to an article is the one registered
\* for the source account the article was listed from, the default parser
\* when none is registered for it.
C29_ParserOfSourceAccount ==
    call.op = "run_extract" =>
        call.result.parser = RegisteredParser(call.article.source_account_name)

\* C30: an extraction, of any text with any metadata by either parser,
\* raises no exception.
C30_ExtractionNeverRaises ==
    call.op \in {"extract_from_text", "run_extract"} => ~call.result.raised

\* The field of the record that holds the value of a label.
FieldOf(fields, label) ==
    CASE label = "NAME" -> fields.project_name
      [] label = "BUDGET" -> fields.budget
      [] label = "PURCHASER" -> fields.purchaser
      [] label = "DOCTIME" -> fields.doc_time
      [] label = "NUMBER" -> fields.project_number
      [] label = "PERIOD" -> fields.service_period
      [] OTHER -> fields.content

\* The text the block of the call writes after a label, trimmed; empty for
\* a label the block leaves out.
WrittenAfter(label) ==
    IF label = "NAME" THEN <<"W5">>
    ELSE IF label \in Range(call.order) THEN Strip(call.given[label])
    ELSE <<>>

\* Every field of the block of the call has a value, and the project number
\* is made of letters, digits and hyphens.
ValuesFilled ==
    \A label \in Range(call.order) :
        /\ call.given[label] # <<>>
        /\ label = "NUMBER" => \A q \in 1..Len(call.given[label]) : NumberChar(call.given[label][q])

\* The fields of the block of the call are what it writes after each label,
\* and the same in whatever order the fields follow the project name.
OrderIrrelevant ==
    /\ \A label \in DefaultLabels : FieldOf(call.fields, label) = WrittenAfter(label)
    /\ \A other \in FieldOrders :
          Range(other) = Range(call.order) =>
              BlockFields(Strip(OrderedBlock(other, call.given))) = call.fields

\* Blocks whose fields all have a value: the order of the fields and the
\* optional ones left out do not change what is extracted.
FilledFieldsOrderIrrelevant ==
    call.op = "block_fields" /\ ValuesFilled => OrderIrrelevant

\* C31: the value captured for a labelled field is the text between its
\* label and the next other label or the end of the block, so the order of
\* the fields after the project name, and the optional fields left out, do
\* not change the values extracted.
C31_ValueBetweenLabels ==
    call.op = "block_fields" => OrderIrrelevant

\* The stages of a run after the filter: retrieval, extraction with
\* save_bids, save_article, notification.
LaterStages == {"scrapeBegin", "scrape", "extract", "article", "send"}

\* The filter of task t has just left no new article.
NothingNew(t) ==
    /\ run[t].pc = "filter"
    /\ run'[t].pc # "filter"
    /\ status'.message = "found"
    /\ run'[t].new_articles = <<>>

\* The run of task t ended at the filter, with no new article.
EndedAtFilter(t) ==
    /\ run[t].pc = "finally"
    /\ run[t].article_list # <<>>
    /\ run[t].new_articles = <<>>
    /\ run[t].exc = None

\* C32: when the filter leaves no new article the run ends with total = 0,
\* and it calls neither the retriever, the extractor, save_bids,
\* save_article nor the notifier: no later stage is entered, and nothing
\* is retrieved, stored or sent before the task is over.
C32_NoNewArticleEndsRun ==
    [][\A t \in Callers :
          /\ NothingNew(t) => run'[t].pc = "finally" /\ status'.total = 0
          /\ run'[t].pc \in LaterStages => run'[t].new_articles # <<>>
          /\ EndedAtFilter(t) =>
                /\ run'[t] \in {run[t], NoTask}
                /\ status'.total = 0
                /\ bidRows' = bidRows /\ articleRows' = articleRows
                /\ run[t].articles_data = <<>> /\ run[t].all_new_bids = <<>>
                /\ run[t].sent = 0]_vars

\* A run whose articles were all stored by an earlier run ended at the filter.
C32_Witness ==
    \E t \in Callers :
        /\ EndedAtFilter(t)
        /\ status.message = "found" /\ status.total = 0
        /\ articleRows # <<>>

\* C33: what get_status returns is the status a complete update left, the
\* reset of start() or a call of _update_status, never a part of one; and
\* a copy with is_running of a run shows the progress and last_error this
\* run wrote, not those of the run before.
C33_StatusSnapshotAtomic ==
    call.op = "status" /\ call.snapshot.taken =>
        /\ call.snapshot.value = call.snapshot.committed
        /\ call.snapshot.value.is_running =>
              /\ call.snapshot.value.last_error = call.snapshot.written.last_error
              /\ call.snapshot.value.progress = call.snapshot.written.progress

\* A copy taken in a run that was started after a run that failed.
C33_Witness ==
    /\ call.op = "status" /\ call.snapshot.taken
    /\ call.snapshot.after_error
    /\ call.snapshot.value.is_running
    /\ call.snapshot.value.last_error = None

\* The attempts of the batch of the call go through the urls in the order
\* of the list, at most retry_count for each, and a batch that returned
\* attempted every url.
AttemptsInOrder ==
    /\ \A j, k \in 1..Len(call.attempted) : j < k => call.attempted[j] <= call.attempted[k]
    /\ \A i \in 1..Len(call.urls) : CountIn(call.attempted, i) <= ScrapeTries
    /\ call.returned => \A i \in 1..Len(call.urls) : CountIn(call.attempted, i) >= 1

\* The callback fired once for each article of the results, with that
\* article, and no article of the results has an empty body.
ResultsUsable ==
    /\ Len(call.callbacks) = Len(call.results)
    /\ \A k \in 1..Len(call.results) :
          /\ call.callbacks[k].data = call.results[k]
          /\ call.results[k].content_text # <<>>
    /\ Len(call.results) + call.failures
          = (IF call.index > Len(call.urls) THEN Len(call.urls) ELSE call.index - 1)

\* The batch attempts every url in the order of the list and never raises.
BatchNeverRaises ==
    call.op = "scrape_articles_batch" =>
        /\ ~call.raised
        /\ AttemptsInOrder
        /\ ResultsUsable

\* C34: once the browser has started, scrape_articles_batch attempts every
\* url in the order of the list, each at most retry_count times; a url
\* whose retrieval fails or gives an empty body is skipped, the batch
\* neither raises nor stops, the callback fires for the retrieved articles
\* only, and no article with an empty body is returned.  A browser that
\* does not start makes the batch raise before any url is attempted.
C34_BatchSkipsFailedUrls ==
    call.op = "scrape_articles_batch" =>
        /\ call.raised => ~call.driver /\ call.attempted = <<>> /\ ~call.returned
        /\ ~call.raised => AttemptsInOrder /\ ResultsUsable

\* A batch returned the second article after every attempt at the first
\* one had failed.
C34_Witness ==
    /\ call.op = "scrape_articles_batch"
    /\ call.returned
    /\ Len(call.urls) = 2
    /\ call.failures = 1
    /\ CountIn(call.attempted, 1) = ScrapeTries
    /\ Len(call.results) = 1 /\ call.callbacks[1].index = 2

\* The articles of task t that were retrieved and went through the loop of
\* the run: extraction, save_bids, save_article.
Processed(t) ==
    IF run[t].pc = "extract" THEN 1..(run[t].idx - 1)
    ELSE IF run[t].pc = "send" THEN 1..Len(run[t].articles_data)
    ELSE {}

\* Every bid extracted from the article is in the store.
BidsStored(article_data) ==
    \A bid \in Range(ExtractFromText(article_data.content_text)) :
        bid.id \in StoredIds(bidRows)

\* The urls of task t whose retrieval was tried and gave nothing.
NotRetrieved(t) ==
    IF run[t].pc \in {"extract", "article", "send"}
    THEN {run[t].new_articles[i] : i \in 1..Len(run[t].new_articles)}
            \ {run[t].articles_data[k].url : k \in 1..Len(run[t].articles_data)}
    ELSE {}

\* An article row is in the store only with the bids of its article, and a
\* url that was not retrieved has no row.
CrawledOnlyWithBids ==
    \A t \in Callers :
        /\ \A k \in Processed(t) :
              IsArticleCrawled(articleRows, Strip(run[t].articles_data[k].url))
                  => BidsStored(run[t].articles_data[k])
        /\ \A url \in NotRetrieved(t) : ~IsArticleCrawled(articleRows, Strip(url))

\* On the file backend a stored article row has its bids in the store.
FileCrawledOnlyWithBids == ~useDb => CrawledOnlyWithBids

\* C35: an article row is written for a url only after its content was
\* retrieved and the bids extracted from it were saved: no url is marked
\* crawled while bids extracted from it are missing from the store, and a
\* url whose retrieval failed has no row, so the next run retrieves it.
C35_CrawledOnlyAfterBidsSaved == CrawledOnlyWithBids

\* A task that will clear is_running: one that start() is handing to the
\* executor, or one that was launched and has not run its finally block.
TaskPendingOrRunning ==
    \E c \in Callers : pc[c] = "launch" \/ run[c].pc # "none"

\* Only a launch that fails leaves is_running without a task.
OnlyFailedLaunchOrphans ==
    [][((status.is_running => TaskPendingOrRunning)
          /\ ~(status.is_running => TaskPendingOrRunning)')
         => \E c \in Callers : pc[c] = "launch" /\ ret'[c] = "raised"]_vars

\* C36: is_running is true only while a task is pending or executing that
\* has not yet run its finally block, in every reachable state, the one
\* reached when handing the task to the executor fails included.
C36_RunningImpliesTask == status.is_running => TaskPendingOrRunning

\* After the reset, every stored bid and article row that was stored before
\* it was handed to the store again by a call that began after it.
ResetKept ==
    call.op = "reset_data" /\ call.reset = "done" =>
        /\ StoredIds(bidRows) \cap call.old_ids \subseteq call.again_ids
        /\ Range(articleRows) \cap call.old_urls \subseteq call.again_urls

\* On the database backend the rows a reset deleted do not come back.
DbResetKept == useDb => ResetKept

\* C37: a reset_data executed while a run is in flight is not undone by the
\* run: bids and article rows stored before the reset, and not extracted
\* again after it, are not in the store after the later save_bids,
\* save_article and update_bid_status calls of the run.
C37_ResetNotUndone == ResetKept

\* start() is called on an enabled scheduler that has no live loop thread.
StartFromStopped ==
    /\ sch.pc # "none"
    /\ sch.enabled
    /\ sch.thread # "alive"
    /\ sch'.starts = sch.starts + 1

\* The first start() of an instance, before any stop(), leaves a live loop
\* thread that finds the stop event clear and goes on to sleep.
FirstStartRuns ==
    [][(StartFromStopped /\ sch.thread = "none")
          => sch'.thread = "alive" /\ sch'.pc = "loop" /\ ~sch'.stop_event]_vars

\* C38: start() on an enabled scheduler that is stopped, also after a
\* stop() of the same instance, leaves a live loop thread that finds the
\* stop event clear, so that it sleeps and calls controller.start() at the
\* next trigger instants.
C38_StartAfterStopRuns ==
    [][StartFromStopped
          => sch'.thread = "alive" /\ sch'.pc = "loop" /\ ~sch'.stop_event]_vars

\* next_after was asked for an expression whose day-of-week field is 0 and
\* found a minute.
WeekdayZeroFound ==
    /\ call.op = "next_interval_seconds"
    /\ call.cron.ok
    /\ call.cron_expr.parts[5] = <<"0">>
    /\ call.next.found

\* The minute found for a day-of-week field 0 falls on the day that
\* datetime.weekday() numbers 0, a Monday.
WeekdayZeroIsMonday == WeekdayZeroFound => call.next.at.weekday = 0

\* C39: the day-of-week field numbers the days as cron does, 0 Sunday ...
\* 6 Saturday: the minute found for an expression whose day-of-week field
\* is 0 falls on a Sunday (6 in the numbering of datetime.weekday()).
C39_WeekdayZeroIsSunday == WeekdayZeroFound => call.next.at.weekday = 6

\* _next_interval_seconds took its cron branch and the expression is
\* malformed (SimpleCron raised) or matches no minute of the year searched
\* (next_after raised).
CronFailed ==
    /\ call.op = "next_interval_seconds"
    /\ ~IntervalPositive(call.config.interval_minutes)
    /\ call.cron_expr.given
    /\ call.cron_expr.parts # <<>>
    /\ (~call.cron.ok \/ ~call.next.found)

\* C40: a cron expression that is malformed or matches no minute within
\* the year searched does not end the scheduler loop: the wait is 3600
\* seconds and the loop thread is alive and sleeps that long; whatever the
\* configuration, computing the wait leaves the loop thread alive with a
\* positive wait.
C40_CronErrorWaitsAnHour ==
    /\ CronFailed => /\ call.result = [branch |-> "except", wait |-> 3600]
                     /\ call.loop = [thread |-> "alive", wait_seconds |-> 3600]
    /\ call.op = "next_interval_seconds" =>
          call.loop.thread = "alive" /\ call.loop.wait_seconds > 0

\* A never-matching expression ("0 0 31 2 *") gave the wait of one hour.
C40_Witness ==
    /\ CronFailed
    /\ call.cron.ok
    /\ ~call.next.found
    /\ call.loop = [thread |-> "alive", wait_seconds |-> 3600]

\* A malformed expression gave the wait of one hour.
MalformedWaitsAnHour ==
    /\ CronFailed
    /\ ~call.cron.ok
    /\ call.loop = [thread |-> "alive", wait_seconds |-> 3600]

====
